---- MODULE Spec2Model ----
(***************************************************************************)
(* Model of the VirtIO split virtqueue driver core                         *)
(* (src/src/drivers/virtio/virtqueue/split.rs): DescrRing::push,           *)
(* DescrRing::poll, DescrRing::dev_is_notif and SplitVq::dispatch_await,   *)
(* together with the device side of the ring and the completion channels.  *)
(*                                                                         *)
(* The MemPool, BufferToken::restr_size and the completion channel live in *)
(* virtqueue/mod.rs, which is not part of the sources at hand; they are    *)
(* modelled from the specification text and from the way split.rs uses     *)
(* them (pool.pop(), ret_id(id), try_send(..)).                            *)
(***************************************************************************)
EXTENDS Integers, Sequences, FiniteSets, TLC

\* ------------------------------------------------------------------- queue
\* Number of descriptors of the queue (the `size` handed to SplitVq::new), a
\* power of two as the split layout requires.
QSize == 4

\* ------------------------------------------------------------------ bounds
\* Number of dispatch_await calls in one behaviour.
MaxTokens == 3
\* Largest number of descriptors in the send buffer of a token.
MaxSend == 2
\* Largest number of descriptors in the receive buffer of a token.
MaxRecv == 1
\* Capacity of each completion channel.
ChanCap == 1
\* Bytes of each memory descriptor of a token.
BufLen == 2
\* Most bytes of a receive buffer the device leaves unwritten.
MaxShort == 1
\* Number of dispatch_await calls in one behaviour of SpecNotif.
NotifTokens == 2
\* Number of dispatch_await calls in one behaviour of SpecIndirect.
IndirectTokens == 2
\* Number of dispatch_await calls in one behaviour of SpecFault.
FaultTokens == 2
\* Number of used elements the device of SpecFault writes out of turn.
MaxRogue == 1
\* Largest queue index handed to SplitVq::new and PackedVq::new.
MaxIndex == 2
\* Largest number of memory descriptors on each side of a call of
\* create_indirect_ctrl.
MaxCtrlDescs == 2

\* --------------------------------------------------------------- constants
\* Width of avail.idx, used.idx and read_idx.
IdxMod == 65536
\* Size in bytes of one split descriptor (mem::size_of::<virtq::Desc>()).
DescSize == 16
\* Index of the queue (SplitVq.index).
VqIdx == 0

Ids == 0 .. (QSize - 1)
Senders == {1, 2}
\* Option<T>: None, or Some(x). A slot of the descriptor table is Uninit
\* (MaybeUninit, never written) or holds the descriptor last written.
None == <<>>
Some(x) == <<x>>
Unwrap(o) == o[1]
Uninit == <<>>

VARIABLES
    pc,          \* "run", "panic" (kernel panic) or "hang" (poll never returns)
    pool,        \* mem_pool.pool: the vector of free descriptor ids
    descr_table, \* descriptor table, Uninit for a slot never written
    avail,       \* avail ring: flags, idx, ring
    used,        \* used ring (written by the device): flags, idx, ring
    read_idx,    \* DescrRing.read_idx
    token_ring,  \* DescrRing.token_ring
    chan,        \* completion channels, one bounded queue per sender
    ntok,        \* number of tokens created so far
    pending,     \* device: published heads not yet marked used
    devused,     \* history: the used elements the device wrote, in order
    inflight,    \* history: chains pushed and not yet polled
    delivered,   \* history: tokens delivered by poll, in order
    ev,          \* history: what the last call did
    call,        \* a single call examined on its own: arguments and result
    com_cfg,     \* the transport: queue registers, and the calls made on it
    packed,      \* the packed queue: descr_ring (DescriptorRing)
    closed       \* the senders whose receiving end has been dropped

vars == <<pc, pool, descr_table, avail, used, read_idx, token_ring, chan,
          ntok, pending, devused, inflight, delivered, ev, call, com_cfg,
          packed, closed>>

\* No packed queue has been constructed.
NoPackedVq == <<>>

\* No call is examined on its own.
NoCall == [op |-> "none"]

\* No split queue has been constructed.
NoSplitVq ==
    /\ pool = <<>>
    /\ descr_table = <<>>
    /\ avail = <<>>
    /\ used = <<>>
    /\ read_idx = 0
    /\ token_ring = <<>>
    /\ chan = <<>>
    /\ ntok = 0
    /\ pending = {}
    /\ devused = <<>>
    /\ inflight = {}
    /\ delivered = <<>>

\* ------------------------------------------------------------------ MemPool
\* The pool is the vector of free ids: push draws with pool.pop(), which
\* takes the last one, and ret_id puts an id back at the end.
\* MemPool::new(size): every id of the queue once, listed upwards or
\* downwards (either way of filling the vector).
MemPoolNew ==
    {[i \in 1 .. QSize |-> i - 1], [i \in 1 .. QSize |-> QSize - i]}

\* pool.pop(): the id drawn and the pool left.
PoolTop(p) == p[Len(p)]

PoolPop(p) == SubSeq(p, 1, Len(p) - 1)

\* MemPool::ret_id(id)
ret_id(p, id) == Append(p, id)

\* The ids the pool holds.
PoolIds(p) == {p[i] : i \in 1 .. Len(p)}

\* ------------------------------------------------------------------- tokens
\* A buffer token with ns send and nr receive descriptors of BufLen bytes.
BufferTokenOf(id, ns, nr) ==
    [id |-> id, ns |-> ns, nr |-> nr, slen |-> ns * BufLen, rlen |-> nr * BufLen]

\* BufferToken::restr_size(None, Some(len)): the logical receive length
\* becomes len; a len beyond the buffer is an error.
restr_size_ok(btkn, len) == len <= btkn.rlen

restr_size(btkn, len) == [btkn EXCEPT !.rlen = len]

\* The memory descriptors of one side of a buffer token: None when the
\* side is absent.
BuffDescs(btkn, side, n) ==
    IF n = 0 THEN None
    ELSE Some([i \in 1 .. n |-> [ptr |-> <<btkn.id, side, i>>, len |-> BufLen]])

\* send.iter().flat_map(|descriptors| descriptors.iter()): the descriptors
\* of an optional slice, none for None.
FlatDescs(o) == IF o = None THEN <<>> ELSE Unwrap(o)

\* An entry of the indirect table as the map builds it: NEXT set and next
\* the number zipped to it (1u16..).
CtrlEntry(mem_descr, incomplete_flags, next_idx) ==
    [addr |-> mem_descr.ptr, len |-> mem_descr.len,
     flags |-> incomplete_flags \cup {"NEXT"}, next |-> next_idx]

\* A last entry that keeps NEXT and its link.
LastCtrlEntryKeep(d) == d

\* The last entry of the table: NEXT removed, next = 0.
LastCtrlEntry(d) == [d EXCEPT !.flags = @ \ {"NEXT"}, !.next = 0]

\* SplitVq::create_indirect_ctrl(send, recv): the table, or
\* BufferNotSpecified when there is no descriptor at all.
create_indirect_ctrl(send, recv) ==
    LET send_desc_iter == [i \in 1 .. Len(FlatDescs(send)) |->
                              <<FlatDescs(send)[i], {}>>]
        recv_desc_iter == [i \in 1 .. Len(FlatDescs(recv)) |->
                              <<FlatDescs(recv)[i], {"WRITE"}>>]
        chained == send_desc_iter \o recv_desc_iter
        indirect_table == [i \in 1 .. Len(chained) |->
                              CtrlEntry(chained[i][1], chained[i][2], i)]
    IN IF indirect_table = <<>>
       THEN [ok |-> FALSE, err |-> "BufferNotSpecified", table |-> <<>>]
       ELSE [ok |-> TRUE, err |-> "",
             table |-> [indirect_table EXCEPT
                          ![Len(indirect_table)] = LastCtrlEntry(@)]]

\* number of entries of the indirect table built by create_indirect_ctrl
CtrlDescLen(btkn) ==
    Len(create_indirect_ctrl(BuffDescs(btkn, "send", btkn.ns),
                             BuffDescs(btkn, "recv", btkn.nr)).table)

\* transfer_token_from_buffer_token(buffer_tkn, Some(sender), buffer_type)
TransferTokenOf(btkn, sender, indirect) ==
    [buff_tkn |-> btkn, await_queue |-> sender,
     ctrl_desc |-> IF indirect THEN Some(CtrlDescLen(btkn)) ELSE None]

\* ------------------------------------------------------- descriptor chains
\* The memory descriptors of a token as push iterates them: the receive
\* buffer reversed (WRITE), then the send buffer reversed (no flag).
RevRecvDescIter(btkn) ==
    [i \in 1 .. btkn.nr |->
        [addr |-> <<btkn.id, "recv", btkn.nr + 1 - i>>, len |-> BufLen,
         flags |-> {"WRITE"}, next |-> 0]]

RevSendDescIter(btkn) ==
    [i \in 1 .. btkn.ns |->
        [addr |-> <<btkn.id, "send", btkn.ns + 1 - i>>, len |-> BufLen,
         flags |-> {}, next |-> 0]]

RevAllDescIter(btkn) == RevRecvDescIter(btkn) \o RevSendDescIter(btkn)

\* The single descriptor push writes for a token with an indirect table.
IndirectDesc(tkn) ==
    [addr |-> <<tkn.buff_tkn.id, "ctrl", 0>>, len |-> DescSize * Unwrap(tkn.ctrl_desc),
     flags |-> {"INDIRECT"}, next |-> 0]

\* A push that writes the chain of an indirect token into the main table.
PushDescsDirect(tkn) == RevAllDescIter(tkn.buff_tkn)

\* The descriptors push writes, in the order it writes them.
PushDescs(tkn) ==
    IF tkn.ctrl_desc # None THEN <<IndirectDesc(tkn)>>
    ELSE RevAllDescIter(tkn.buff_tkn)

\* The flags and link of the i-th descriptor push writes: the first one
\* written (the last of the chain) stays as built, every later one gets
\* NEXT and names the slot written just before.
LinkDesc(d, i, prev) ==
    IF i = 1 THEN d
    ELSE [d EXCEPT !.flags = @ \cup {"NEXT"}, !.next = prev]

\* What is done when the pool is exhausted in the middle of push: the `?`
\* returns at once, the ids drawn so far stay drawn.
PushFail(p, t, drawn) ==
    [ok |-> FALSE, index |-> 0, pool |-> p, table |-> t, drawn |-> drawn]

\* The draws and table writes of push from the i-th descriptor on.
RECURSIVE PushDraw(_, _, _, _, _, _)
PushDraw(ds, i, prev, p, t, drawn) ==
    IF i > Len(ds)
    THEN [ok |-> TRUE, index |-> prev, pool |-> p, table |-> t, drawn |-> drawn]
    ELSE IF p = <<>>
    THEN PushFail(p, t, drawn)
    ELSE PushDraw(ds, i + 1, PoolTop(p), PoolPop(p),
                  [t EXCEPT ![PoolTop(p)] = Some(LinkDesc(ds[i], i, prev))],
                  <<PoolTop(p)>> \o drawn)

\* Position of the avail ring push writes the head to.
AvailPos(idx) == idx % QSize

\* A push that steps avail.idx by two.
NextIdxSkip(idx) == (idx + 2) % IdxMod

\* The avail.idx push publishes.
NextIdx(idx) == (idx + 1) % IdxMod

\* DescrRing::push of the given token in the current state. A failing push
\* returns before token_ring and the avail ring are touched.
push(tkn) ==
    LET o == PushDraw(PushDescs(tkn), 1, 0, pool, descr_table, <<>>)
    IN [ok |-> o.ok, index |-> o.index, pool |-> o.pool, table |-> o.table,
        drawn |-> o.drawn,
        token_ring |-> IF o.ok THEN [token_ring EXCEPT ![o.index] = Some(tkn)]
                       ELSE token_ring,
        avail |-> IF o.ok
                  THEN [avail EXCEPT !.ring[AvailPos(avail.idx)] = o.index,
                                     !.idx = NextIdx(avail.idx)]
                  ELSE avail,
        next_idx |-> IF o.ok THEN NextIdx(avail.idx) ELSE avail.idx]

\* DescrRing::dev_is_notif
dev_is_notif == "NO_NOTIFY" \notin used.flags

\* DescrRing::drv_enable_notif on the avail ring a.
drv_enable_notif(a) == [a EXCEPT !.flags = @ \ {"NO_INTERRUPT"}]

\* A drv_disable_notif that toggles the bit.
drv_disable_notif_toggle(a) ==
    [a EXCEPT !.flags = IF "NO_INTERRUPT" \in @ THEN @ \ {"NO_INTERRUPT"}
                        ELSE @ \cup {"NO_INTERRUPT"}]

\* DescrRing::drv_disable_notif on the avail ring a.
drv_disable_notif(a) == [a EXCEPT !.flags = @ \cup {"NO_INTERRUPT"}]

\* --------------------------------------------------------------------- poll
\* What a read of a descriptor slot that was never written may yield: the
\* table is allocated uninitialised, so NEXT may be clear or set, and next
\* may name a slot of the table (0 here) or lie beyond it (QSize here).
GarbageNext == {0, QSize}

GarbageDescs ==
    {[flags |-> {}, next |-> 0]}
        \cup {[flags |-> {"NEXT"}, next |-> j] : j \in GarbageNext}

ReadDesc(id) ==
    IF descr_table[id] = Uninit THEN GarbageDescs ELSE {Unwrap(descr_table[id])}

\* A poll that reads the used ring one position too far.
CurRingIndexOff(idx) == (idx + 1) % QSize

\* The position of the used ring poll reads next.
CurRingIndex(idx) == idx % QSize

\* The read_idx after one used element.
NextReadIdx(idx) == (idx + 1) % IdxMod

\* The slot poll starts returning ids from, for the used element read at
\* ring position cur_ring_index.
IdRetStart(cur_ring_index, used_elem) == cur_ring_index

\* The inner loop of poll: ret_id(id), read the slot, follow NEXT/next.
\* end is "ok" when a descriptor without NEXT is met, "oob" when next leaves
\* the table (index panic) and "hang" when the walk comes back to a slot it
\* has visited (it then never ends).
RECURSIVE IdRetWalk(_, _, _, _)
IdRetWalk(id, p, visited, ret) ==
    IF id \in visited
    THEN {[end |-> "hang", pool |-> p, ret |-> ret]}
    ELSE LET p2 == ret_id(p, id)
             ret2 == Append(ret, id)
         IN UNION {IF "NEXT" \in d.flags
                   THEN IF d.next \in Ids
                        THEN IdRetWalk(d.next, p2, visited \cup {id}, ret2)
                        ELSE {[end |-> "oob", pool |-> p2, ret |-> ret2]}
                   ELSE {[end |-> "ok", pool |-> p2, ret |-> ret2]}
                   : d \in ReadDesc(id)}

\* A poll that forgets to restrict the receive buffer.
PollRestrKeep(btkn, used_elem) == btkn

\* The token poll hands on: restricted to used.len when it has a receive
\* buffer, as it is otherwise.
PollRestr(btkn, used_elem) ==
    IF btkn.nr > 0 THEN restr_size(btkn, used_elem.len) ELSE btkn

\* A poll that skips a used element without a token and goes on.
ExpectSkip(st, r) ==
    [st EXCEPT !.read_idx = NextReadIdx(@), !.elems = Append(@, r)]

\* `.expect(..)` on an empty slot of token_ring: the kernel panics.
ExpectPanic(st, r) == [st EXCEPT !.pc = "panic", !.elems = Append(@, r)]

\* A poll that drops the token it cannot send and goes on.
TrySendDrop(st, r) ==
    [st EXCEPT !.read_idx = NextReadIdx(@), !.elems = Append(@, r)]

\* `try_send(..).unwrap()` on an error of try_send: the kernel panics.
TrySendPanic(st, r) == [st EXCEPT !.pc = "panic", !.elems = Append(@, r)]

\* The error of queue.try_send, if any: Closed when the receiving end is
\* gone, else Full when the channel holds ChanCap tokens.
try_send_err(c, s) ==
    IF s \in closed THEN "closed"
    ELSE IF Len(c[s]) >= ChanCap THEN "full" ELSE ""

\* One iteration of the loop of poll on the state st (the fields poll
\* changes, and the history it leaves); yields every possible outcome.
PollElem(st) ==
    LET cur_ring_index == CurRingIndex(st.read_idx)
        used_elem == used.ring[cur_ring_index]
        slot == st.token_ring[used_elem.id]
        tkn == Unwrap(slot)
        taken == [st EXCEPT !.token_ring[used_elem.id] = None]
        rec(tok, ret, end) ==
            [pos |-> cur_ring_index, id |-> used_elem.id, len |-> used_elem.len,
             tok |-> tok, ret |-> ret, end |-> end]
    IN IF slot = None
       THEN {ExpectPanic(st, rec(0, <<>>, "notoken"))}
       ELSE LET btkn == PollRestr(tkn.buff_tkn, used_elem)
                gone == [taken EXCEPT
                           !.inflight = {f \in @ : f.tok # tkn.buff_tkn.id}]
            IN IF tkn.buff_tkn.nr > 0 /\ ~restr_size_ok(tkn.buff_tkn, used_elem.len)
               THEN \* restr_size(..).unwrap() panics
                    {[gone EXCEPT !.pc = "panic",
                        !.elems = Append(@, rec(btkn.id, <<>>, "restr"))]}
               ELSE IF try_send_err(st.chan, tkn.await_queue) # ""
               THEN {TrySendPanic(gone,
                        rec(btkn.id, <<>>,
                            try_send_err(st.chan, tkn.await_queue)))}
               ELSE LET sent == [gone EXCEPT
                              !.chan[tkn.await_queue] = Append(@, btkn),
                              !.delivered = Append(@,
                                  [tok |-> btkn.id, to |-> tkn.await_queue,
                                   btkn |-> btkn, orig |-> tkn.buff_tkn,
                                   used_elem |-> used_elem,
                                   upos |-> st.read_idx])]
                    IN {[sent EXCEPT
                           !.pool = w.pool,
                           !.pc = IF w.end = "ok" THEN "run"
                                  ELSE IF w.end = "oob" THEN "panic" ELSE "hang",
                           !.read_idx = IF w.end = "ok"
                                        THEN NextReadIdx(st.read_idx) ELSE @,
                           !.elems = Append(@, rec(btkn.id, w.ret, w.end))]
                        : w \in IdRetWalk(IdRetStart(cur_ring_index, used_elem),
                                          st.pool, {}, <<>>)}

\* The loop of poll: until read_idx = used.idx, or a panic, or a hang.
RECURSIVE PollLoop(_)
PollLoop(st) ==
    IF st.pc # "run" \/ st.read_idx = used.idx
    THEN {st}
    ELSE UNION {PollLoop(s2) : s2 \in PollElem(st)}

\* DescrRing::poll: every possible outcome in the current state.
poll ==
    PollLoop([pc |-> pc, pool |-> pool, read_idx |-> read_idx,
              token_ring |-> token_ring, chan |-> chan,
              delivered |-> delivered, inflight |-> inflight, elems |-> <<>>])

\* ---------------------------------------------------------------- transport
\* The configuration area of the device (ComCfg and the handler select_vq
\* returns) is not part of the sources at hand; it is modelled from the
\* specification text and from the calls split.rs and packed.rs make on it.
\* The queue indexes the device has.
DevQueues == {0, 1}

\* The transport before any queue is configured, for a device whose queues
\* hold up to max descriptors. log is the history of the calls made on the
\* transport and on the DMA allocator, in order.
ComCfgInit(max) ==
    [queue_size |-> [q \in DevQueues |-> max],
     ring_addr |-> [q \in DevQueues |-> None],
     drv_ctrl_addr |-> [q \in DevQueues |-> None],
     dev_ctrl_addr |-> [q \in DevQueues |-> None],
     enabled |-> [q \in DevQueues |-> FALSE],
     log |-> <<>>]

Logged(cfg, op) == [cfg EXCEPT !.log = Append(@, op)]

\* com_cfg.select_vq(index): a handler for a queue the device has.
select_vq(cfg, index) ==
    [some |-> index \in DevQueues, cfg |-> Logged(cfg, "select_vq")]

\* vq_handler.set_vq_size(size): the size is taken when the device allows
\* it; the size the queue then has is returned (queue_size[q]).
set_vq_size(cfg, q, size) ==
    Logged([cfg EXCEPT !.queue_size[q] = IF @ >= size THEN size ELSE @],
           "set_vq_size")

set_ring_addr(cfg, q, addr) ==
    Logged([cfg EXCEPT !.ring_addr[q] = Some(addr)], "set_ring_addr")

set_drv_ctrl_addr(cfg, q, addr) ==
    Logged([cfg EXCEPT !.drv_ctrl_addr[q] = Some(addr)], "set_drv_ctrl_addr")

set_dev_ctrl_addr(cfg, q, addr) ==
    Logged([cfg EXCEPT !.dev_ctrl_addr[q] = Some(addr)], "set_dev_ctrl_addr")

enable_queue(cfg, q) ==
    Logged([cfg EXCEPT !.enabled[q] = TRUE], "enable_queue")

\* notif_cfg.notification_location(&mut vq_handler)
notification_location(cfg, q) == Logged(cfg, "notification_location")

\* ------------------------------------------------------------ SplitVq::new
\* What a call of new returns: Ok with the queue's size, an error with its
\* argument, or no return at all (kind "abort").
NewOk(size, notif_data) ==
    [kind |-> "Ok", err |-> "", arg |-> 0, size |-> size,
     notif_data |-> notif_data]

NewErr(err, arg) ==
    [kind |-> "Err", err |-> err, arg |-> arg, size |-> 0,
     notif_data |-> FALSE]

NewAbort ==
    [kind |-> "abort", err |-> "", arg |-> 0, size |-> 0, notif_data |-> FALSE]

\* Which allocation of SplitVq::new the DMA allocator fails, if any.
AllocOutcomes == {"ok", "descr_table", "avail", "used"}

\* A publication that enables the queue before the device area is set.
SplitPublishEnableEarly(cfg, index) ==
    set_dev_ctrl_addr(
        enable_queue(
            set_drv_ctrl_addr(
                set_ring_addr(cfg, index, <<"descr_table", index>>),
                index, <<"avail_ring", index>>),
            index),
        index, <<"used_ring", index>>)

\* The three addresses handed to the device, in the order of the calls.
SplitPublish(cfg, index) ==
    set_dev_ctrl_addr(
        set_drv_ctrl_addr(
            set_ring_addr(cfg, index, <<"descr_table", index>>),
            index, <<"avail_ring", index>>),
        index, <<"used_ring", index>>)

\* SplitVq::new(com_cfg, notif_cfg, size, index, features) when the
\* allocator behaves as alloc says: the result and the transport left.
\* Box::new_uninit_slice_in does not return on failure; the two try_new_in
\* give AllocationError.
SplitVqNew(cfg, size, index, features, alloc) ==
    LET sel == select_vq(cfg, index)
        c1 == set_vq_size(sel.cfg, index, size)
        vq_size == c1.queue_size[index]
        c2 == Logged(c1, "alloc_descr_table")
        c3 == Logged(c2, "alloc_avail")
        c4 == Logged(c3, "alloc_used")
        c5 == notification_location(SplitPublish(c4, index), index)
        c6 == enable_queue(c5, index)
    IN IF ~sel.some
       THEN [res |-> NewErr("QueueNotExisting", index), cfg |-> sel.cfg]
       ELSE IF alloc = "descr_table"
       THEN [res |-> NewAbort, cfg |-> c2]
       ELSE IF alloc = "avail"
       THEN [res |-> NewErr("AllocationError", 0), cfg |-> c3]
       ELSE IF alloc = "used"
       THEN [res |-> NewErr("AllocationError", 0), cfg |-> c4]
       ELSE [res |-> NewOk(vq_size, "NOTIFICATION_DATA" \in features),
             cfg |-> c6]

\* ----------------------------------------------------------- PackedVq::new
\* A size check that lets the sizes above 32768 through.
PackedSizeAllowedLax(size) == size # 0

\* The negation of `(size.0 == 0) | (size.0 > 32768)`.
PackedSizeAllowed(size) == ~((size = 0) \/ (size > 32768))

\* The three addresses handed to the device by PackedVq::new.
PackedPublish(cfg, index) ==
    set_dev_ctrl_addr(
        set_drv_ctrl_addr(
            set_ring_addr(cfg, index, <<"descr_ring", index>>),
            index, <<"drv_event", index>>),
        index, <<"dev_event", index>>)

\* PackedVq::new(com_cfg, size, index): the result and the transport left.
PackedVqNew(cfg, size, index) ==
    LET sel == select_vq(cfg, index)
        c1 == set_vq_size(sel.cfg, index, size)
    IN IF ~sel.some
       THEN [res |-> NewErr("QueueNotExisting", index), cfg |-> sel.cfg]
       ELSE IF ~PackedSizeAllowed(size)
       THEN [res |-> NewErr("SizeNotAllowed", size), cfg |-> sel.cfg]
       ELSE [res |-> NewOk(size, FALSE), cfg |-> PackedPublish(c1, index)]

\* --------------------------------------------------------------- the system
\* SplitVq::new: the rings are fresh, the descriptor table uninitialised,
\* token_ring all None, read_idx 0 and the pool full.
Init ==
    /\ pc = "run"
    /\ pool \in MemPoolNew
    /\ descr_table = [i \in Ids |-> Uninit]
    /\ avail = [flags |-> {}, idx |-> 0, ring |-> [i \in Ids |-> 0]]
    /\ used = [flags |-> {}, idx |-> 0,
               ring |-> [i \in Ids |-> [id |-> 0, len |-> 0]]]
    /\ read_idx = 0
    /\ token_ring = [i \in Ids |-> None]
    /\ chan = [s \in Senders |-> <<>>]
    /\ ntok = 0
    /\ pending = {}
    /\ devused = <<>>
    /\ inflight = {}
    /\ delivered = <<>>
    /\ ev = [op |-> "new"]
    /\ call = NoCall
    /\ com_cfg = SplitVqNew(ComCfgInit(QSize), QSize, VqIdx, {}, "ok").cfg
    /\ packed = NoPackedVq
    /\ closed = {}

\* SplitVq::dispatch_await(buffer_tkn, sender, notif, buffer_type) for a
\* buffer token of ns send and nr receive descriptors.
dispatch_await(ns, nr, sender, notif, indirect) ==
    /\ pc = "run"
    /\ ntok < MaxTokens
    /\ LET btkn == BufferTokenOf(ntok + 1, ns, nr)
           tkn == TransferTokenOf(btkn, sender, indirect)
           o == push(tkn)
       IN
            /\ pool' = o.pool
            /\ descr_table' = o.table
            /\ token_ring' = o.token_ring
            /\ avail' = o.avail
            /\ pending' = IF o.ok
                          THEN pending \cup
                               {[pos |-> avail.idx, head |-> o.index,
                                 tok |-> btkn.id, sender |-> sender,
                                 rcap |-> btkn.rlen]}
                          ELSE pending
            /\ inflight' = IF o.ok
                           THEN inflight \cup
                                {[tok |-> btkn.id, head |-> o.index,
                                  slots |-> o.drawn]}
                           ELSE inflight
            \* `if notif { unimplemented!() }` after a successful push
            /\ pc' = IF o.ok /\ notif THEN "panic" ELSE "run"
            /\ ev' = [op |-> "dispatch_await", tkn |-> tkn, notif |-> notif,
                      ok |-> o.ok, index |-> o.index, drawn |-> o.drawn,
                      old_idx |-> avail.idx, next_idx |-> o.next_idx,
                      old_pool |-> pool, old_ring |-> avail.ring,
                      old_token_ring |-> token_ring,
                      no_notify |-> ~dev_is_notif,
                      notified |-> o.ok /\ ~notif /\ dev_is_notif,
                      data |-> [vqn |-> VqIdx, next_idx |-> o.next_idx]]
    /\ ntok' = ntok + 1
    /\ UNCHANGED <<used, read_idx, chan, devused, delivered, call,
                   com_cfg, packed, closed>>

\* Virtq::poll
Poll ==
    /\ pc = "run"
    /\ \E r \in poll :
         /\ pc' = r.pc
         /\ pool' = r.pool
         /\ read_idx' = r.read_idx
         /\ token_ring' = r.token_ring
         /\ chan' = r.chan
         /\ delivered' = r.delivered
         /\ inflight' = r.inflight
         /\ ev' = [op |-> "poll", old_read_idx |-> read_idx,
                   used_idx |-> used.idx, elems |-> r.elems,
                   old_delivered |-> Len(delivered)]
    /\ UNCHANGED <<descr_table, avail, used, ntok, pending, devused, call,
                   com_cfg, packed, closed>>

\* The device marks one of the published heads used, in any order, writing
\* at most as many bytes as the chain's receive buffer holds.
DeviceUse ==
    /\ pc = "run"
    /\ \E e \in pending, k \in 0 .. MaxRecv * BufLen :
         /\ k <= e.rcap
         /\ e.rcap - k <= MaxShort
         /\ used' = [used EXCEPT
                       !.ring[used.idx % QSize] = [id |-> e.head, len |-> k],
                       !.idx = (used.idx + 1) % IdxMod]
         /\ pending' = pending \ {e}
         /\ devused' = Append(devused, [id |-> e.head, len |-> k,
                                          tok |-> e.tok, sender |-> e.sender])
    /\ UNCHANGED <<pc, pool, descr_table, avail, read_idx, token_ring, chan,
                   ntok, inflight, delivered, ev, call,
                   com_cfg, packed, closed>>

\* The device sets or clears NO_NOTIFY in used.flags.
DeviceFlags ==
    /\ pc = "run"
    /\ \E f \in {{}, {"NO_NOTIFY"}} :
         /\ f # used.flags
         /\ used' = [used EXCEPT !.flags = f]
    /\ UNCHANGED <<pc, pool, descr_table, avail, read_idx, token_ring, chan,
                   ntok, pending, devused, inflight, delivered, ev, call,
                   com_cfg, packed, closed>>

\* The upper drivers take the completed tokens out of their channels.
Recv ==
    /\ pc = "run"
    /\ \E s \in Senders : chan[s] # <<>>
    /\ chan' = [s \in Senders |-> <<>>]
    /\ UNCHANGED <<pc, pool, descr_table, avail, used, read_idx, token_ring,
                   ntok, pending, devused, inflight, delivered, ev, call,
                   com_cfg, packed, closed>>

\* The calls of the upper drivers: the tokens are sent back to the two
\* endpoints in turn.
DispatchAwait ==
    \E ns \in 0 .. MaxSend, nr \in 0 .. MaxRecv,
       notif \in BOOLEAN, indirect \in BOOLEAN :
      \E sender \in {1 + (ntok % 2)} :
        /\ ns + nr >= 1
        /\ indirect => (ns = 1 /\ nr = 1)
        /\ dispatch_await(ns, nr, sender, notif, indirect)

Next ==
    \/ DispatchAwait
    \/ Poll
    \/ DeviceUse
    \/ DeviceFlags
    \/ Recv

Spec == Init /\ [][Next]_vars

\* Virtq::enable_notifs
EnableNotifs ==
    /\ pc = "run"
    /\ avail' = drv_enable_notif(avail)
    /\ ev' = [op |-> "enable_notifs", was |-> "NO_INTERRUPT" \in avail.flags]
    /\ UNCHANGED <<pc, pool, descr_table, used, read_idx, token_ring, chan,
                   ntok, pending, devused, inflight, delivered, call,
                   com_cfg, packed, closed>>

\* Virtq::disable_notifs
DisableNotifs ==
    /\ pc = "run"
    /\ avail' = drv_disable_notif(avail)
    /\ ev' = [op |-> "disable_notifs", was |-> "NO_INTERRUPT" \in avail.flags]
    /\ UNCHANGED <<pc, pool, descr_table, used, read_idx, token_ring, chan,
                   ntok, pending, devused, inflight, delivered, call,
                   com_cfg, packed, closed>>

\* The queue with the two notification calls of the driver, for up to
\* NotifTokens tokens. No driver code reads avail.flags and the device of
\* this model does not act on it, so Spec leaves the two calls out.
NextNotif ==
    \/ (ntok < NotifTokens /\ DispatchAwait)
    \/ Poll
    \/ DeviceUse
    \/ DeviceFlags
    \/ Recv
    \/ EnableNotifs
    \/ DisableNotifs

SpecNotif == Init /\ [][NextNotif]_vars

\* dispatch_await with BufferType::Indirect for a token of any shape.
DispatchAwaitIndirect ==
    \E ns \in 0 .. MaxSend, nr \in 0 .. MaxRecv, notif \in BOOLEAN :
      \E sender \in {1 + (ntok % 2)} :
        /\ ns + nr >= 1
        /\ dispatch_await(ns, nr, sender, notif, TRUE)

\* The queue with indirect tokens of every shape, for up to IndirectTokens
\* tokens.
NextIndirect ==
    \/ (ntok < IndirectTokens /\ DispatchAwait)
    \/ (ntok < IndirectTokens /\ DispatchAwaitIndirect)
    \/ Poll
    \/ DeviceUse
    \/ DeviceFlags
    \/ Recv

SpecIndirect == Init /\ [][NextIndirect]_vars

\* The device writes a used element for an id it does not hold: one that
\* was never published, or one it has marked used before.
DeviceRogue ==
    /\ pc = "run"
    /\ Cardinality({i \in 1 .. Len(devused) : devused[i].tok = 0}) < MaxRogue
    /\ \E id \in Ids :
         /\ \A e \in pending : e.head # id
         /\ used' = [used EXCEPT
                       !.ring[used.idx % QSize] = [id |-> id, len |-> 0],
                       !.idx = (used.idx + 1) % IdxMod]
         /\ devused' = Append(devused, [id |-> id, len |-> 0,
                                          tok |-> 0, sender |-> 0])
    /\ UNCHANGED <<pc, pool, descr_table, avail, read_idx, token_ring, chan,
                   ntok, pending, inflight, delivered, ev, call,
                   com_cfg, packed, closed>>

\* An upper driver drops the receiving end of its channel.
DropReceiver ==
    /\ pc = "run"
    /\ \E s \in Senders \ closed :
         /\ closed' = closed \cup {s}
         /\ chan' = [chan EXCEPT ![s] = <<>>]
    /\ UNCHANGED <<pc, pool, descr_table, avail, used, read_idx, token_ring,
                   ntok, pending, devused, inflight, delivered, ev, call,
                   com_cfg, packed>>

\* dispatch_await of a direct token with the endpoint of the first upper
\* driver, whatever the number of tokens it has been given.
DispatchAwaitSame ==
    \E ns \in 0 .. MaxSend, nr \in 0 .. MaxRecv :
        /\ ns + nr >= 1
        /\ dispatch_await(ns, nr, 1, FALSE, FALSE)

\* The queue with a device and upper drivers that break their contracts,
\* for up to FaultTokens tokens.
NextFault ==
    \/ (ntok < FaultTokens /\ DispatchAwait)
    \/ (ntok < FaultTokens /\ DispatchAwaitSame)
    \/ Poll
    \/ DeviceUse
    \/ DeviceRogue
    \/ DeviceFlags
    \/ Recv
    \/ DropReceiver

SpecFault == Init /\ [][NextFault]_vars

\* ------------------------------------------------------ queue construction
\* The sizes and device limits new is called with.
NewSizes == {0, 1, 3, 4, 32768, 32769, 65535}

DevQueueSizes == {4, 32768}

InitNew ==
    /\ pc = "run"
    /\ NoSplitVq
    /\ ev = [op |-> "none"]
    /\ packed = NoPackedVq
    /\ closed = {}
    /\ \E max \in DevQueueSizes : com_cfg = ComCfgInit(max)
    /\ call \in [op : {"SplitVq::new"}, size : NewSizes, index : 0 .. MaxIndex,
                  features : SUBSET {"NOTIFICATION_DATA"},
                  alloc : AllocOutcomes, res : {None}]
               \cup [op : {"PackedVq::new"}, size : NewSizes,
                     index : 0 .. MaxIndex, features : {{}}, alloc : {"ok"},
                     res : {None}]

SplitNew ==
    /\ call.op = "SplitVq::new"
    /\ call.res = None
    /\ LET o == SplitVqNew(com_cfg, call.size, call.index, call.features,
                           call.alloc)
       IN /\ call' = [call EXCEPT !.res = Some(o.res)]
          /\ com_cfg' = o.cfg
    /\ UNCHANGED <<pc, pool, descr_table, avail, used, read_idx, token_ring,
                   chan, ntok, pending, devused, inflight, delivered, ev,
                   packed, closed>>

PackedNew ==
    /\ call.op = "PackedVq::new"
    /\ call.res = None
    /\ LET o == PackedVqNew(com_cfg, call.size, call.index)
       IN /\ call' = [call EXCEPT !.res = Some(o.res)]
          /\ com_cfg' = o.cfg
    /\ UNCHANGED <<pc, pool, descr_table, avail, used, read_idx, token_ring,
                   chan, ntok, pending, devused, inflight, delivered, ev,
                   packed, closed>>

NextNew ==
    \/ SplitNew
    \/ PackedNew

SpecNew == InitNew /\ [][NextNew]_vars

\* ----------------------------------------------- create_indirect_ctrl alone
\* Lengths in bytes of the memory descriptors handed to create_indirect_ctrl.
CtrlLens == {8, 16}

\* The slices of up to n memory descriptors of one side.
SideDescs(side, n) ==
    UNION {{[i \in 1 .. k |-> [ptr |-> <<0, side, i>>, len |-> f[i]]]
              : f \in [1 .. k -> CtrlLens]} : k \in 0 .. n}

\* Option<&[MemDescr]>
OptSideDescs(side, n) == {None} \cup {Some(q) : q \in SideDescs(side, n)}

InitCtrl ==
    /\ pc = "run"
    /\ NoSplitVq
    /\ ev = [op |-> "none"]
    /\ call \in [op : {"create_indirect_ctrl"},
                 send : OptSideDescs("send", MaxCtrlDescs),
                 recv : OptSideDescs("recv", MaxCtrlDescs),
                 res : {None}]
    /\ com_cfg = ComCfgInit(QSize)
    /\ packed = NoPackedVq
    /\ closed = {}

CreateIndirectCtrl ==
    /\ call.op = "create_indirect_ctrl"
    /\ call.res = None
    /\ call' = [call EXCEPT
                  !.res = Some(create_indirect_ctrl(call.send, call.recv))]
    /\ UNCHANGED <<pc, pool, descr_table, avail, used, read_idx, token_ring,
                   chan, ntok, pending, devused, inflight, delivered, ev,
                   com_cfg, packed, closed>>

SpecCtrl == InitCtrl /\ [][CreateIndirectCtrl]_vars

\* ----------------------------------------------------------- packed queue
\* The size PackedVq::new is called with.
PSize == 4

\* A u16 of flags is the set of its bits: `&` is \cap and `|` is \cup.
U16Bits == 0 .. 15

VIRTQ_DESC_F_NEXT == {0}

VIRTQ_DESC_F_WRITE == {1}

VIRTQ_DESC_F_INDIRECT == {2}

\* 0xFEFE
FlagMask == U16Bits \ {0, 8}

\* WrapCount::new
WrapCountNew == TRUE

\* wrap that clears the counter whatever it was.
wrapClear(w) == IF w = FALSE THEN FALSE ELSE FALSE

\* WrapCount::wrap
wrap(w) == IF w = FALSE THEN TRUE ELSE FALSE

\* WrapCount::as_flags
as_flags(w) == IF w = TRUE THEN {7} ELSE {15}

\* The null token pointer.
NullTkn == 0

\* Descriptor { address: 0, len: 0, buff_id: 0, flags: 0 }
ZeroDescriptor == [address |-> <<>>, len |-> 0, buff_id |-> 0, flags |-> {}]

\* DescriptorRing::new(size)
DescriptorRingNew(size) ==
    [ring |-> [i \in 0 .. size - 1 |-> ZeroDescriptor],
     tkn_ref_ring |-> [i \in 0 .. size |-> NullTkn],
     write_index |-> 0,
     capacity |-> size,
     poll_index |-> 0,
     wrap_count |-> WrapCountNew]

\* self.ring.len()
RingLen(r) == Cardinality(DOMAIN r.ring)

\* DescriptorRing::get_write_ctrler; panic records that an assertion, an
\* unwrap of None or an index out of bounds has aborted the kernel.
get_write_ctrler(r) ==
    [start |-> r.write_index,
     position |-> r.write_index,
     modulo |-> RingLen(r),
     wrap_at_init |-> r.wrap_count,
     buff_id |-> 0,
     desc_ring |-> r,
     panic |-> FALSE]

\* incrmt with a write_index that is not taken modulo the ring length.
incrmtNoModulo(c) ==
    IF ~(c.desc_ring.capacity # 0)
    THEN [c EXCEPT !.panic = TRUE]
    ELSE [c EXCEPT
            !.desc_ring.capacity = @ - 1,
            !.desc_ring.wrap_count =
                IF c.position + 1 = c.modulo THEN wrap(@) ELSE @,
            !.desc_ring.write_index = @ + 1,
            !.position = (@ + 1) % c.modulo]

\* WriteCtrl::incrmt
incrmt(c) ==
    IF ~(c.desc_ring.capacity # 0)
    THEN [c EXCEPT !.panic = TRUE]
    ELSE [c EXCEPT
            !.desc_ring.capacity = @ - 1,
            !.desc_ring.wrap_count =
                IF c.position + 1 = c.modulo THEN wrap(@) ELSE @,
            !.desc_ring.write_index = (@ + 1) % c.modulo,
            !.position = (@ + 1) % c.modulo]

\* write_desc that gives every descriptor after the head the wrap count the
\* ring had when the push began.
write_descAtInit(c, mem_desc, flags) ==
    IF c.panic THEN c
    ELSE IF c.start = c.position
    THEN IF mem_desc.id = None
         THEN [c EXCEPT !.panic = TRUE]
         ELSE incrmt([c EXCEPT
                        !.desc_ring.ring[c.position] =
                            [address |-> mem_desc.ptr,
                             len |-> mem_desc.len,
                             buff_id |-> Unwrap(mem_desc.id),
                             flags |-> flags \cap FlagMask],
                        !.buff_id = Unwrap(mem_desc.id)])
    ELSE incrmt([c EXCEPT
                   !.desc_ring.ring[c.position] =
                       [address |-> mem_desc.ptr,
                        len |-> mem_desc.len,
                        buff_id |-> c.buff_id,
                        flags |-> (flags \cap FlagMask)
                                  \cup as_flags(c.wrap_at_init)]])

\* WriteCtrl::write_desc(mem_desc, flags); nothing more is written once the
\* kernel has panicked.
write_desc(c, mem_desc, flags) ==
    IF c.panic THEN c
    ELSE IF c.start = c.position
    THEN IF mem_desc.id = None
         THEN [c EXCEPT !.panic = TRUE]
         ELSE incrmt([c EXCEPT
                        !.desc_ring.ring[c.position] =
                            [address |-> mem_desc.ptr,
                             len |-> mem_desc.len,
                             buff_id |-> Unwrap(mem_desc.id),
                             flags |-> flags \cap FlagMask],
                        !.buff_id = Unwrap(mem_desc.id)])
    ELSE incrmt([c EXCEPT
                   !.desc_ring.ring[c.position] =
                       [address |-> mem_desc.ptr,
                        len |-> mem_desc.len,
                        buff_id |-> c.buff_id,
                        flags |-> (flags \cap FlagMask)
                                  \cup as_flags(c.desc_ring.wrap_count)]])

\* make_avail that takes the flags of the head from the wrap count the ring
\* has when the chain is written.
make_availCurrent(c, raw_tkn) ==
    IF c.panic THEN c
    ELSE IF c.buff_id \notin DOMAIN c.desc_ring.tkn_ref_ring
    THEN [c EXCEPT !.panic = TRUE]
    ELSE [c EXCEPT
            !.desc_ring.tkn_ref_ring[c.buff_id] = raw_tkn,
            !.desc_ring.ring[c.start].flags =
                @ \cup as_flags(c.desc_ring.wrap_count)]

\* make_avail that records the token pointer at the slot of the head
\* instead of at its buff_id.
make_availAtStart(c, raw_tkn) ==
    IF c.panic THEN c
    ELSE IF c.start \notin DOMAIN c.desc_ring.tkn_ref_ring
    THEN [c EXCEPT !.panic = TRUE]
    ELSE [c EXCEPT
            !.desc_ring.tkn_ref_ring[c.start] = raw_tkn,
            !.desc_ring.ring[c.start].flags = @ \cup as_flags(c.wrap_at_init)]

\* WriteCtrl::make_avail(raw_tkn)
make_avail(c, raw_tkn) ==
    IF c.panic THEN c
    ELSE IF c.buff_id \notin DOMAIN c.desc_ring.tkn_ref_ring
    THEN [c EXCEPT !.panic = TRUE]
    ELSE [c EXCEPT
            !.desc_ring.tkn_ref_ring[c.buff_id] = raw_tkn,
            !.desc_ring.ring[c.start].flags = @ \cup as_flags(c.wrap_at_init)]

\* A MemDescr: its memory, its length and the id it holds, if any.
MemDescr(ptr, len, id) == [ptr |-> ptr, len |-> len, id |-> id]

\* Buffer::Single/Multiple (ctrl_desc None) and Buffer::Indirect.
Buffer(desc_lst, ctrl_desc) == [desc_lst |-> desc_lst, ctrl_desc |-> ctrl_desc]

\* Buffer::get_ctrl_desc
get_ctrl_desc(buff) == buff.ctrl_desc

\* Buffer::as_slice
as_slice(buff) == buff.desc_lst

\* The flags push hands to write_desc for a descriptor of a direct buffer
\* when buff_len descriptors are still to be written.
SendFlags(buff_len) == IF buff_len > 1 THEN VIRTQ_DESC_F_NEXT ELSE {}

RecvFlags(buff_len) ==
    IF buff_len > 1
    THEN VIRTQ_DESC_F_NEXT \cap VIRTQ_DESC_F_WRITE
    ELSE VIRTQ_DESC_F_WRITE

\* The write_desc calls of a loop `for desc in buff.as_slice()` of push that
\* starts with buff_len descriptors to write.
DirectWrites(lst, buff_len, recv) ==
    [i \in 1 .. Len(lst) |->
        [desc |-> lst[i],
         flags |-> IF recv THEN RecvFlags(buff_len - (i - 1))
                   ELSE SendFlags(buff_len - (i - 1))]]

IndirectWrite(ctrl_desc) ==
    <<[desc |-> ctrl_desc, flags |-> VIRTQ_DESC_F_INDIRECT]>>

WritesOk(w) == [panic |-> FALSE, writes |-> w]

WritesPanic == [panic |-> TRUE, writes |-> <<>>]

\* The match of push over the buffers of the token: the write_desc calls it
\* makes, in order, or the panic of its arm.
PackedWrites(btkn) ==
    LET s == btkn.send_buff
        r == btkn.recv_buff
    IN IF s # None /\ r # None
       THEN LET sc == get_ctrl_desc(Unwrap(s))
                rc == get_ctrl_desc(Unwrap(r))
                sl == as_slice(Unwrap(s))
                rl == as_slice(Unwrap(r))
            IN IF sc # None /\ rc # None
               THEN WritesOk(IndirectWrite(Unwrap(sc)))
               ELSE IF sc = None /\ rc = None
               THEN WritesOk(DirectWrites(sl, Len(sl) + Len(rl), FALSE)
                             \o DirectWrites(rl, Len(rl), TRUE))
               ELSE WritesPanic
       ELSE IF s # None
       THEN LET sc == get_ctrl_desc(Unwrap(s))
                sl == as_slice(Unwrap(s))
            IN IF sc # None
               THEN WritesOk(IndirectWrite(Unwrap(sc)))
               ELSE WritesOk(DirectWrites(sl, Len(sl), FALSE))
       ELSE IF r # None
       THEN LET rc == get_ctrl_desc(Unwrap(r))
                rl == as_slice(Unwrap(r))
            IN IF rc # None
               THEN WritesOk(IndirectWrite(Unwrap(rc)))
               ELSE WritesOk(DirectWrites(rl, Len(rl), TRUE))
       ELSE WritesPanic

\* The write controller after the write_desc calls w[i], w[i+1], ...
RECURSIVE WriteAll(_, _, _)
WriteAll(c, w, i) ==
    IF i > Len(w) THEN c
    ELSE WriteAll(write_desc(c, w[i].desc, w[i].flags), w, i + 1)

\* BufferToken::len: the number of ring slots the token takes, one for an
\* indirect token and one per descriptor for a direct one.
BufferTokenLen(btkn) ==
    LET n(b) == IF b = None THEN 0
                ELSE IF get_ctrl_desc(Unwrap(b)) # None THEN 1
                ELSE Len(as_slice(Unwrap(b)))
    IN IF btkn.send_buff # None /\ btkn.recv_buff # None
          /\ get_ctrl_desc(Unwrap(btkn.send_buff)) # None
       THEN 1
       ELSE n(btkn.send_buff) + n(btkn.recv_buff)

\* DescriptorRing::push(tkn): whether the kernel panicked, the ring left and
\* the pinned token returned.
DescriptorRing_push(r, tkn) ==
    IF ~(BufferTokenLen(tkn.buff_tkn) <= r.capacity)
    THEN [panic |-> TRUE, desc_ring |-> r, pinned |-> tkn]
    ELSE LET w == PackedWrites(tkn.buff_tkn)
             c == WriteAll(get_write_ctrler(r), w.writes, 1)
         IN IF w.panic
            THEN [panic |-> TRUE, desc_ring |-> r, pinned |-> tkn]
            ELSE LET d == make_avail(c, tkn.raw_addr)
                 IN [panic |-> d.panic, desc_ring |-> d.desc_ring,
                     pinned |-> IF d.panic THEN tkn
                                ELSE [tkn EXCEPT !.state = "Processing"]]

\* MemPool::new(size): the pool holds the ids 1 to size, in one order or
\* the other; pull takes the last.
PackedMemPoolNew(size) ==
    {[i \in 1 .. size |-> i], [i \in 1 .. size |-> size + 1 - i]}

\* The PackedVq that PackedVq::new(com_cfg, size, index) returns in Ok: the
\* ring has the size set_vq_size returned, the pool the size asked for.
PackedVqOf(cfg, size, index, mem_pool) ==
    LET vq_size == set_vq_size(select_vq(cfg, index).cfg, index,
                               size).queue_size[index]
    IN [descr_ring |-> DescriptorRingNew(vq_size),
        mem_pool |-> mem_pool,
        size |-> size,
        index |-> index,
        dropped |-> <<>>]

\* Number of prep_transfer calls in one behaviour.
PackedTokens == 4

\* Largest number of sizes in a BuffSpec::Multiple.
MaxSizes == 2

\* Largest number of sizes in a BuffSpec::Indirect.
MaxIndirectSizes == 1

\* BuffSpec::Single(size), ::Multiple(size_lst), ::Indirect(size_lst) with n
\* sizes.
BuffSpecs ==
    {[kind |-> "Single", n |-> 1]}
    \cup [kind : {"Multiple"}, n : 2 .. MaxSizes]
    \cup [kind : {"Indirect"}, n : 1 .. MaxIndirectSizes]

OptBuffSpecs == {None} \cup {Some(b) : b \in BuffSpecs}

\* The ids that n calls of pull return, in order.
Pulls(free, n) == [i \in 1 .. n |-> free[Len(free) + 1 - i]]

\* The descriptors of one buffer of token tok, holding ids[off + 1 ..] when
\* tracked and no id when pulled untracked.
DescLst(tok, side, n, ids, off, tracked) ==
    [i \in 1 .. n |->
        MemDescr(<<tok, side, i>>, BufLen,
                 IF tracked THEN Some(ids[off + i]) ELSE None)]

PrepOk(tkn, free) ==
    [ok |-> TRUE, err |-> "", arg |-> 0, tkn |-> Some(tkn), pool |-> free]

PrepErr(err, free) ==
    [ok |-> FALSE, err |-> err, arg |-> 0, tkn |-> None, pool |-> free]

\* The pool after a call has pulled m ids, k of them for send descriptors,
\* and returned an error: the receive descriptors are dropped first, then
\* the send descriptors, each list from its first descriptor on, and every
\* descriptor gives its id back.
PoolAfterDrop(free, m, k) ==
    LET ids == Pulls(free, m)
    IN SubSeq(free, 1, Len(free) - m)
       \o SubSeq(ids, k + 1, m) \o SubSeq(ids, 1, k)

\* `Err(vq_err) => return Err(vq_err)` of a pull that found no id, with the
\* descriptors pulled before going out of scope but giving nothing back.
PullFailLeak(free, m, k) ==
    PrepErr("NoDescrAvail", SubSeq(free, 1, Len(free) - m))

\* `Err(vq_err) => return Err(vq_err)` of a pull that found no id, after m
\* descriptors were pulled, k of them for the send buffer.
PullFail(free, m, k) == PrepErr("NoDescrAvail", PoolAfterDrop(free, m, k))

\* The arms of the matches over (send, recv) and (send_spec, recv_spec) that
\* return at once, with every shape let through.
shape_errLax(send, recv) == ""

\* The arms of the matches over (send, recv) and (send_spec, recv_spec) that
\* return at once: the error, or "" for the other arms.
shape_err(send, recv) ==
    IF send = None /\ recv = None THEN "BufferNotSpecified"
    ELSE IF send # None /\ recv # None
            /\ (Unwrap(send).kind = "Indirect")
                 # (Unwrap(recv).kind = "Indirect")
    THEN "BufferInWithDirect"
    ELSE ""

\* Of the n sizes of a spec, each of BufLen bytes, how many a buffer of len
\* bytes passes before the size check fails: `data.len() != size` for
\* Single, `data.get(index..end_index)` for each size of a list.
SizesPassed(o, len) ==
    IF o = None THEN 0
    ELSE IF Unwrap(o).kind = "Single"
    THEN IF len # BufLen THEN 0 ELSE 1
    ELSE IF len \div BufLen < Unwrap(o).n THEN len \div BufLen
         ELSE Unwrap(o).n

\* The bytes the sizes of a spec add up to.
SpecLen(o) == IF o = None THEN 0 ELSE Unwrap(o).n * BufLen

\* PackedVq::prep_transfer(send, recv) for the token at address tok, with
\* send data of slen bytes and receive data of rlen bytes: its result and
\* the pool it leaves. The send sizes are gone through first, then the
\* receive sizes, each size checked against the data and then pulled.
prep_transfer_data(vq, tok, send, recv, slen, rlen) ==
    LET free == vq.mem_pool
        ind(o) == o # None /\ Unwrap(o).kind = "Indirect"
        num(o) == IF o = None THEN 0 ELSE Unwrap(o).n
        direct == ~ind(send) /\ ~ind(recv)
        need == IF direct THEN num(send) + num(recv) ELSE 1
        ids == Pulls(free, need)
        sp == SizesPassed(send, slen)
        rp == SizesPassed(recv, rlen)
        \* the descriptors pulled before the first size check that fails
        passed == IF sp < num(send) THEN sp ELSE num(send) + rp
        wrong == sp < num(send) \/ rp < num(recv)
        ctrl == IF direct THEN None
                ELSE Some(MemDescr(<<tok, "ctrl", 1>>,
                                   DescSize * (num(send) + num(recv)),
                                   Some(ids[1])))
        buff(o, side, off) ==
            IF o = None THEN None
            ELSE Some(Buffer(DescLst(tok, side, num(o), ids, off, direct),
                             ctrl))
        min(x, y) == IF x < y THEN x ELSE y
    IN IF shape_err(send, recv) # ""
       THEN PrepErr(shape_err(send, recv), free)
       ELSE IF direct /\ wrong /\ passed <= Len(free)
       THEN [PrepErr("BufferSizeWrong",
                     PoolAfterDrop(free, passed, min(passed, num(send))))
                EXCEPT !.arg = IF sp < num(send) THEN slen ELSE rlen]
       ELSE IF ~direct /\ wrong
       THEN [PrepErr("BufferSizeWrong", free)
                EXCEPT !.arg = IF sp < num(send) THEN slen ELSE rlen]
       ELSE IF Len(free) < need
       THEN PullFail(free, min(Len(free), need),
                     min(Len(free), IF direct THEN num(send) ELSE 0))
       ELSE PrepOk([buff_tkn |-> [send_buff |-> buff(send, "send", 0),
                                  recv_buff |-> buff(recv, "recv", num(send))],
                    raw_addr |-> tok,
                    state |-> "Ready"],
                   SubSeq(free, 1, Len(free) - need))

\* prep_transfer with data of the sizes of the specs.
prep_transfer(vq, tok, send, recv) ==
    prep_transfer_data(vq, tok, send, recv, SpecLen(send), SpecLen(recv))

\* PackedVq::prep_transfer_from_raw(send, recv): the checks and pulls of
\* prep_transfer, on memory the caller keeps.
prep_transfer_from_raw(vq, tok, send, recv, slen, rlen) ==
    prep_transfer_data(vq, tok, send, recv, slen, rlen)

\* PackedVq::prep_buffer(send, recv): the pulls of prep_transfer, each for a
\* buffer of the size of the spec; the result holds a BufferToken.
prep_buffer(vq, tok, send, recv) ==
    prep_transfer_data(vq, tok, send, recv, SpecLen(send), SpecLen(recv))

\* The device offers a queue of the size asked for, or of one less.
PackedDevSizes == {PSize - 1, PSize}

\* After PackedVq::new(com_cfg, PSize, VqIdx); packed.ready holds the
\* tokens prepared and not yet dispatched, packed.transfers the pinned
\* tokens dispatch returned.
InitPacked ==
    /\ pc = "run"
    /\ NoSplitVq
    /\ call = NoCall
    /\ closed = {}
    /\ ev = [op |-> "new"]
    /\ \E max \in PackedDevSizes :
         /\ PackedVqNew(ComCfgInit(max), PSize, VqIdx).res.kind = "Ok"
         /\ com_cfg = PackedVqNew(ComCfgInit(max), PSize, VqIdx).cfg
         /\ \E p \in PackedMemPoolNew(PSize) :
              packed = [vq |-> PackedVqOf(ComCfgInit(max), PSize, VqIdx, p),
                        ready |-> {}, transfers |-> {}]

\* Virtq::prep_transfer on the packed queue
PrepTransfer ==
    /\ pc = "run"
    /\ ntok < PackedTokens
    /\ \E send \in OptBuffSpecs, recv \in OptBuffSpecs :
         LET o == prep_transfer(packed.vq, ntok + 1, send, recv)
         IN /\ packed' = [packed EXCEPT
                            !.vq.mem_pool = o.pool,
                            !.ready = IF o.ok THEN @ \cup {Unwrap(o.tkn)}
                                      ELSE @]
            /\ ev' = [op |-> "prep_transfer", ok |-> o.ok, err |-> o.err,
                      old_pool |-> packed.vq.mem_pool]
    /\ ntok' = ntok + 1
    /\ UNCHANGED <<pc, pool, descr_table, avail, used, read_idx, token_ring,
                   chan, pending, devused, inflight, delivered, call,
                   com_cfg, closed>>

\* PackedVq::dispatch(tkn) for a token prepared before
PackedDispatch ==
    /\ pc = "run"
    /\ \E tkn \in packed.ready :
         LET o == DescriptorRing_push(packed.vq.descr_ring, tkn)
         IN /\ packed' = [packed EXCEPT
                            !.vq.descr_ring = o.desc_ring,
                            !.ready = @ \ {tkn},
                            !.transfers = IF o.panic THEN @
                                          ELSE @ \cup {o.pinned}]
            /\ pc' = IF o.panic THEN "panic" ELSE "run"
            /\ ev' = [op |-> "dispatch", tkn |-> tkn, panic |-> o.panic,
                      old |-> packed.vq.descr_ring]
    /\ UNCHANGED <<pool, descr_table, avail, used, read_idx, token_ring,
                   chan, ntok, pending, devused, inflight, delivered, call,
                   com_cfg, closed>>

NextPacked ==
    \/ PrepTransfer
    \/ PackedDispatch

SpecPacked == InitPacked /\ [][NextPacked]_vars

\* Largest ring of the write controllers incrmt is applied to.
MaxRing == 3

\* Largest capacity such a write controller starts with: incrmt reads the
\* capacity only to assert that it is not zero, so a controller with more
\* capacity than slots goes round its ring more than once.
MaxWrites == 8

\* A write controller on a new ring of 1 to MaxRing slots; packed.writes
\* counts the calls of incrmt that returned.
InitWrap ==
    /\ pc = "run"
    /\ NoSplitVq
    /\ call = NoCall
    /\ closed = {}
    /\ com_cfg = <<>>
    /\ ev = [op |-> "new"]
    /\ \E size \in 1 .. MaxRing, cap \in 0 .. MaxWrites :
         packed = [ctrl |-> get_write_ctrler(
                                [DescriptorRingNew(size) EXCEPT
                                    !.capacity = cap]),
                   writes |-> 0]

\* WriteCtrl::incrmt
Incrmt ==
    /\ pc = "run"
    /\ LET c == incrmt(packed.ctrl)
       IN /\ packed' = [ctrl |-> c,
                        writes |-> IF c.panic THEN packed.writes
                                   ELSE packed.writes + 1]
          /\ pc' = IF c.panic THEN "panic" ELSE "run"
          /\ ev' = [op |-> "incrmt", old |-> packed.ctrl]
    /\ UNCHANGED <<pool, descr_table, avail, used, read_idx, token_ring,
                   chan, ntok, pending, devused, inflight, delivered, call,
                   com_cfg, closed>>

SpecWrap == InitWrap /\ [][Incrmt]_vars

\* The AVAIL and USED bits of a packed descriptor.
AvailBit == 7

UsedBit == 15

\* The flags a slot can hold when a push begins: none, the availability
\* bits of an earlier pass as the driver or the device wrote them, or every
\* bit.
DirtyFlags == {{}, {AvailBit}, {UsedBit}, {AvailBit, UsedBit}, U16Bits}

\* A ring of size slots as earlier pushes and completions can leave it.
UsedRing(size, write_index, wrap_count, capacity, flags) ==
    [DescriptorRingNew(size) EXCEPT
        !.ring = [i \in 0 .. size - 1 |->
                    [ZeroDescriptor EXCEPT !.flags = flags]],
        !.write_index = write_index,
        !.wrap_count = wrap_count,
        !.capacity = capacity]

\* One token prepared on a queue whose ring has 1 to MaxRing slots and
\* is at any write position, with either wrap count and any capacity.
InitPush ==
    /\ pc = "run"
    /\ NoSplitVq
    /\ call = NoCall
    /\ closed = {}
    /\ com_cfg = <<>>
    /\ ev = [op |-> "new"]
    /\ \E size \in 1 .. MaxRing, wrap_count \in BOOLEAN, flags \in DirtyFlags,
          p \in PackedMemPoolNew(PSize),
          send \in OptBuffSpecs, recv \in OptBuffSpecs :
         \E write_index \in 0 .. size - 1, capacity \in 0 .. size :
            LET vq == [descr_ring |-> UsedRing(size, write_index, wrap_count,
                                               capacity, flags),
                       mem_pool |-> p, size |-> PSize, index |-> VqIdx,
                       dropped |-> <<>>]
                o == prep_transfer(vq, 1, send, recv)
            IN /\ o.ok
               /\ packed = [vq |-> [vq EXCEPT !.mem_pool = o.pool],
                            ready |-> {Unwrap(o.tkn)}, transfers |-> {}]

\* DescriptorRing::push as a function of the ring and the token.
SpecPush == InitPush /\ [][PackedDispatch]_vars

\* The ids the descriptors of a token hold, in the order its buffers are
\* dropped: the send buffer, then the receive buffer; the control descriptor
\* of an indirect token once.
TokenIds(tkn) ==
    LET ids(b) == IF b = None THEN <<>>
                  ELSE LET l == as_slice(Unwrap(b))
                       IN [i \in 1 .. Len(l) |-> l[i].id]
        ctrl(b) == IF b = None THEN <<>>
                   ELSE IF get_ctrl_desc(Unwrap(b)) = None THEN <<>>
                   ELSE <<Unwrap(get_ctrl_desc(Unwrap(b))).id>>
        s == tkn.buff_tkn.send_buff
        r == tkn.buff_tkn.recv_buff
        all == ids(s) \o ctrl(s) \o ids(r) \o (IF ctrl(s) = <<>> THEN ctrl(r)
                                               ELSE <<>>)
    IN SelectSeq(all, LAMBDA o : o # None)

\* Drop of a token: its descriptors give their ids back to the pool.
DropToken(mem_pool, tkn) ==
    mem_pool \o [i \in 1 .. Len(TokenIds(tkn)) |-> Unwrap(TokenIds(tkn)[i])]

\* early_drop that keeps a Ready token like a Processing one.
early_dropReady(vq, tkn) ==
    IF tkn.state = "Finished"
    THEN [panic |-> FALSE,
          vq |-> [vq EXCEPT !.mem_pool = DropToken(@, tkn)]]
    ELSE [panic |-> FALSE, vq |-> [vq EXCEPT !.dropped = Append(@, tkn)]]

\* PackedVq::early_drop(tkn): whether the kernel panicked, and the queue
\* left.
early_drop(vq, tkn) ==
    IF tkn.state = "Finished"
    THEN [panic |-> FALSE,
          vq |-> [vq EXCEPT !.mem_pool = DropToken(@, tkn)]]
    ELSE IF tkn.state = "Ready"
    THEN [panic |-> TRUE, vq |-> vq]
    ELSE [panic |-> FALSE, vq |-> [vq EXCEPT !.dropped = Append(@, tkn)]]

\* PackedVq::early_drop(tkn)
EarlyDropOf(tkn) ==
    /\ pc = "run"
    /\ LET o == early_drop(packed.vq, tkn)
       IN /\ packed' = [packed EXCEPT
                          !.vq = o.vq,
                          !.ready = @ \ {tkn},
                          !.transfers = @ \ {tkn}]
          /\ pc' = IF o.panic THEN "panic" ELSE "run"
          /\ ev' = [op |-> "early_drop", tkn |-> tkn, panic |-> o.panic,
                    old |-> packed.vq]
    /\ UNCHANGED <<pool, descr_table, avail, used, read_idx, token_ring,
                   chan, ntok, pending, devused, inflight, delivered, call,
                   com_cfg, closed>>

\* PackedVq::early_drop of a token a caller holds
EarlyDrop == \E tkn \in packed.ready \cup packed.transfers : EarlyDropOf(tkn)

TransferStates == {"Ready", "Processing", "Finished"}

\* A new queue and one token a caller holds: prepared and Ready, or
\* dispatched and Processing or Finished.
InitEarlyDrop ==
    /\ pc = "run"
    /\ NoSplitVq
    /\ call = NoCall
    /\ closed = {}
    /\ ev = [op |-> "new"]
    /\ \E max \in PackedDevSizes, p \in PackedMemPoolNew(PSize),
          send \in OptBuffSpecs, recv \in OptBuffSpecs,
          state \in TransferStates :
         LET vq == PackedVqOf(ComCfgInit(max), PSize, VqIdx, p)
             o == prep_transfer(vq, 1, send, recv)
             d == DescriptorRing_push(vq.descr_ring, Unwrap(o.tkn))
         IN /\ com_cfg = PackedVqNew(ComCfgInit(max), PSize, VqIdx).cfg
            /\ o.ok
            /\ state # "Ready" => ~d.panic
            /\ packed =
                 IF state = "Ready"
                 THEN [vq |-> [vq EXCEPT !.mem_pool = o.pool],
                       ready |-> {Unwrap(o.tkn)}, transfers |-> {}]
                 ELSE [vq |-> [vq EXCEPT !.mem_pool = o.pool,
                                         !.descr_ring = d.desc_ring],
                       ready |-> {},
                       transfers |-> {[d.pinned EXCEPT !.state = state]}]

\* PackedVq::early_drop as a function of the queue and the token.
SpecEarlyDrop == InitEarlyDrop /\ [][EarlyDrop]_vars

\* Number of prep_transfer calls in one behaviour of the queue with its
\* device.
PollTokens == 2

\* DescriptorRing::poll: unimplemented!()
DescriptorRing_poll(r) == [panic |-> TRUE, desc_ring |-> r, tkn |-> None]

\* DescriptorRing::poll
PackedPoll ==
    /\ pc = "run"
    /\ LET o == DescriptorRing_poll(packed.vq.descr_ring)
       IN /\ packed' = [packed EXCEPT !.vq.descr_ring = o.desc_ring]
          /\ pc' = IF o.panic THEN "panic" ELSE "run"
          /\ ev' = [op |-> "poll", panic |-> o.panic, old |-> packed.vq,
                    tkn |-> o.tkn]
    /\ UNCHANGED <<pool, descr_table, avail, used, read_idx, token_ring,
                   chan, ntok, pending, devused, inflight, delivered, call,
                   com_cfg, closed>>

\* The descriptors of the buffer the device finds at slot i: up to the
\* first without NEXT, at most n of them.
RECURSIVE DevChainLen(_, _, _)
DevChainLen(r, i, n) ==
    IF n <= 1 \/ ~(VIRTQ_DESC_F_NEXT \subseteq r.ring[i].flags) THEN 1
    ELSE 1 + DevChainLen(r, (i + 1) % RingLen(r), n - 1)

\* The device takes the buffer at its position, available under its wrap
\* count, and marks it used: it writes the id of the buffer and AVAIL and
\* USED equal to its wrap count into the first slot, and moves on past the
\* buffer.
PackedDeviceUse ==
    /\ pc = "run"
    /\ LET r == packed.vq.descr_ring
           d == packed.dev
           f == r.ring[d.index].flags
           n == DevChainLen(r, d.index, RingLen(r))
       IN /\ (AvailBit \in f) = d.wrap
          /\ (UsedBit \in f) = ~d.wrap
          /\ packed' =
               [packed EXCEPT
                  !.vq.descr_ring.ring[d.index].flags =
                      (@ \ {AvailBit, UsedBit})
                      \cup (IF d.wrap THEN {AvailBit, UsedBit} ELSE {}),
                  !.dev = [index |-> (d.index + n) % RingLen(r),
                           wrap |-> IF d.index + n >= RingLen(r)
                                    THEN ~d.wrap ELSE d.wrap,
                           used |-> d.used \cup {r.ring[d.index].buff_id}]]
    /\ UNCHANGED <<pc, pool, descr_table, avail, used, read_idx, token_ring,
                   chan, ntok, pending, devused, inflight, delivered, call,
                   com_cfg, ev, closed>>

\* PackedVq::early_drop of a pinned token that dispatch returned
EarlyDropTransfer == \E tkn \in packed.transfers : EarlyDropOf(tkn)

\* After PackedVq::new(com_cfg, PSize, VqIdx) on a device that offers the
\* size asked for; packed.dev is the position of the device in the ring, its
\* wrap count and the buffer ids it has marked used.
InitPoll ==
    /\ pc = "run"
    /\ NoSplitVq
    /\ call = NoCall
    /\ closed = {}
    /\ ev = [op |-> "new"]
    /\ com_cfg = PackedVqNew(ComCfgInit(PSize), PSize, VqIdx).cfg
    /\ \E p \in PackedMemPoolNew(PSize) :
         packed = [vq |-> PackedVqOf(ComCfgInit(PSize), PSize, VqIdx, p),
                   ready |-> {}, transfers |-> {},
                   dev |-> [index |-> 0, wrap |-> TRUE, used |-> {}]]

\* The packed queue with its device, early drops and polls, for up to
\* PollTokens tokens.
NextPoll ==
    \/ (ntok < PollTokens /\ PrepTransfer)
    \/ PackedDispatch
    \/ EarlyDropTransfer
    \/ PackedDeviceUse
    \/ PackedPoll

SpecPoll == InitPoll /\ [][NextPoll]_vars

\* The device goes on marking buffers used and the driver goes on polling.
SpecPollLive ==
    SpecPoll /\ WF_vars(PackedDeviceUse) /\ WF_vars(PackedPoll)

\* The three calls that prepare a token.
PrepFns == {"prep_buffer", "prep_transfer", "prep_transfer_from_raw"}

\* The lengths of the data handed over with a spec.
DataLens == 0 .. (MaxSizes * BufLen + 1)

\* A queue whose pool earlier calls have left with 0 to PSize ids, and one
\* call that prepares a token: its buffer specs and, for the two calls that
\* take data, the lengths of the data.
InitPrep ==
    /\ pc = "run"
    /\ NoSplitVq
    /\ closed = {}
    /\ ev = [op |-> "new"]
    /\ com_cfg = PackedVqNew(ComCfgInit(PSize), PSize, VqIdx).cfg
    /\ \E p \in PackedMemPoolNew(PSize), taken \in 0 .. PSize :
         packed = [vq |-> PackedVqOf(ComCfgInit(PSize), PSize, VqIdx,
                                     SubSeq(p, 1, PSize - taken)),
                   ready |-> {}, transfers |-> {}]
    /\ \E fn \in PrepFns, send \in OptBuffSpecs, recv \in OptBuffSpecs,
          slen \in DataLens, rlen \in DataLens :
         /\ (fn = "prep_buffer" \/ send = None) => slen = SpecLen(send)
         /\ (fn = "prep_buffer" \/ recv = None) => rlen = SpecLen(recv)
         /\ call = [op |-> fn, send |-> send, recv |-> recv,
                    slen |-> slen, rlen |-> rlen]

\* The call is made.
Prep ==
    /\ pc = "run"
    /\ call.op \in PrepFns
    /\ LET o == IF call.op = "prep_buffer"
                THEN prep_buffer(packed.vq, 1, call.send, call.recv)
                ELSE IF call.op = "prep_transfer"
                THEN prep_transfer_data(packed.vq, 1, call.send, call.recv,
                                        call.slen, call.rlen)
                ELSE prep_transfer_from_raw(packed.vq, 1, call.send,
                                            call.recv, call.slen, call.rlen)
       IN /\ packed' = [packed EXCEPT
                          !.vq.mem_pool = o.pool,
                          !.ready = IF o.ok THEN {Unwrap(o.tkn)} ELSE {}]
          /\ ev' = [op |-> call.op, send |-> call.send, recv |-> call.recv,
                    slen |-> call.slen, rlen |-> call.rlen, ok |-> o.ok,
                    err |-> o.err, arg |-> o.arg,
                    old_pool |-> packed.vq.mem_pool]
    /\ call' = NoCall
    /\ UNCHANGED <<pc, pool, descr_table, avail, used, read_idx, token_ring,
                   chan, ntok, pending, devused, inflight, delivered,
                   com_cfg, closed>>

\* prep_buffer, prep_transfer and prep_transfer_from_raw as functions of the
\* pool and their arguments.
SpecPrep == InitPrep /\ [][Prep]_vars

\* ------------------------------------------------- push, statement by statement
\* The descriptor table and the avail ring are memory the device reads while
\* the driver writes it. The stores of the driver reach that memory one by
\* one, and stores to different locations in any order, unless a barrier
\* stands between them. Here descr_table and avail are the memory as the
\* device sees it, ev.wbuf the stores of the driver that have not reached it
\* yet (in program order), and call the push in progress.

\* The tokens pushed statement by statement.
OrderTokens == 2

\* No store is under way.
NoStores == [op |-> "stores", wbuf |-> <<>>]

\* The push has returned.
PushIdle == [op |-> "push", at |-> "idle"]

\* The memory a record of stores applies to.
MemOf(t, a, w) == [descr_table |-> t, avail |-> a, wbuf |-> w]

\* The k-th store of the buffer reaches memory.
Store(m, k) ==
    LET s == m.wbuf[k]
        rest == [j \in 1 .. (Len(m.wbuf) - 1) |->
                    IF j < k THEN m.wbuf[j] ELSE m.wbuf[j + 1]]
    IN IF s.loc[1] = "desc"
       THEN [m EXCEPT !.descr_table[s.loc[2]] = s.val, !.wbuf = rest]
       ELSE IF s.loc[1] = "ring"
       THEN [m EXCEPT !.avail.ring[s.loc[2]] = s.val, !.wbuf = rest]
       ELSE [m EXCEPT !.avail.idx = s.val, !.wbuf = rest]

\* A barrier that orders nothing.
memory_barrierNone(m) == m

\* Every buffered store reaches memory, oldest first.
RECURSIVE Drain(_)
Drain(m) == IF m.wbuf = <<>> THEN m ELSE Drain(Store(m, 1))

\* arch::memory_barrier(): every store issued before it has reached memory
\* before any store issued after it does.
memory_barrier(m) == Drain(m)

\* The stores that may reach memory next: the oldest one to each location.
Storable(w) ==
    {k \in 1 .. Len(w) : \A j \in 1 .. (k - 1) : w[j].loc # w[k].loc}

\* avail.idx as the driver reads it: its own latest store, else memory.
DrvIdx(a, w) ==
    LET ks == {k \in 1 .. Len(w) : w[k].loc = <<"idx">>}
    IN IF ks = {} THEN a.idx
       ELSE w[CHOOSE k \in ks : \A j \in ks : j <= k].val

\* dispatch_await builds the transfer token and enters push.
PushBegin ==
    /\ pc = "run"
    /\ call.at = "idle"
    /\ ntok < OrderTokens
    /\ \E ns \in 0 .. MaxSend, nr \in 0 .. MaxRecv, indirect \in BOOLEAN :
         /\ ns + nr >= 1
         /\ indirect => (ns = 1 /\ nr = 1)
         /\ LET tkn == TransferTokenOf(BufferTokenOf(ntok + 1, ns, nr),
                                        1 + (ntok % 2), indirect)
            IN call' = [op |-> "push", at |-> "chain", tkn |-> tkn,
                        ds |-> PushDescs(tkn), i |-> 1, index |-> 0,
                        writes |-> <<>>, idx |-> DrvIdx(avail, ev.wbuf),
                        idx0 |-> DrvIdx(avail, ev.wbuf)]
    /\ ntok' = ntok + 1
    /\ UNCHANGED <<pc, pool, descr_table, avail, used, read_idx, token_ring,
                   chan, pending, devused, inflight, delivered, ev,
                   com_cfg, packed, closed>>

\* One descriptor of the chain: pool.pop() (NoDescrAvail returns from push),
\* then the store into the slot drawn.
PushDesc ==
    /\ pc = "run"
    /\ call.at = "chain"
    /\ IF pool = <<>>
       THEN /\ call' = PushIdle
            /\ UNCHANGED <<pool, ev>>
       ELSE LET d == LinkDesc(call.ds[call.i], call.i, call.index)
            IN /\ pool' = PoolPop(pool)
               /\ ev' = [ev EXCEPT !.wbuf = Append(@,
                           [loc |-> <<"desc", PoolTop(pool)>>, val |-> Some(d)])]
               /\ call' = [call EXCEPT
                             !.index = PoolTop(pool),
                             !.i = @ + 1,
                             !.writes = Append(@, <<PoolTop(pool), d>>),
                             !.at = IF call.i = Len(call.ds) THEN "token"
                                    ELSE "chain"]
    /\ UNCHANGED <<pc, descr_table, avail, used, read_idx, token_ring, chan,
                   ntok, pending, devused, inflight, delivered,
                   com_cfg, packed, closed>>

\* self.token_ring[index] = Some(Box::new(tkn))
PushToken ==
    /\ pc = "run"
    /\ call.at = "token"
    /\ token_ring' = [token_ring EXCEPT ![call.index] = Some(call.tkn)]
    /\ call' = [call EXCEPT !.at = "ring"]
    /\ UNCHANGED <<pc, pool, descr_table, avail, used, read_idx, chan, ntok,
                   pending, devused, inflight, delivered, ev,
                   com_cfg, packed, closed>>

\* idx = avail.idx; avail.ring[idx % len] = index
PushRing ==
    /\ pc = "run"
    /\ call.at = "ring"
    /\ LET idx == DrvIdx(avail, ev.wbuf)
       IN /\ ev' = [ev EXCEPT !.wbuf = Append(@,
                      [loc |-> <<"ring", AvailPos(idx)>>, val |-> call.index])]
          /\ call' = [call EXCEPT !.at = "fence", !.idx = idx]
    /\ UNCHANGED <<pc, pool, descr_table, avail, used, read_idx, token_ring,
                   chan, ntok, pending, devused, inflight, delivered,
                   com_cfg, packed, closed>>

\* memory_barrier()
PushFence ==
    /\ pc = "run"
    /\ call.at = "fence"
    /\ LET m == memory_barrier(MemOf(descr_table, avail, ev.wbuf))
       IN /\ descr_table' = m.descr_table
          /\ avail' = m.avail
          /\ ev' = [ev EXCEPT !.wbuf = m.wbuf]
    /\ call' = [call EXCEPT !.at = "idx"]
    /\ UNCHANGED <<pc, pool, used, read_idx, token_ring, chan, ntok, pending,
                   devused, inflight, delivered, com_cfg, packed, closed>>

\* avail.idx = idx.wrapping_add(1); Ok(next_idx)
PushIdx ==
    /\ pc = "run"
    /\ call.at = "idx"
    /\ ev' = [ev EXCEPT !.wbuf = Append(@,
                [loc |-> <<"idx">>, val |-> NextIdx(call.idx)])]
    /\ inflight' = inflight \cup
                     {[pos |-> call.idx, head |-> call.index,
                       tkn |-> call.tkn, writes |-> call.writes]}
    /\ call' = PushIdle
    /\ UNCHANGED <<pc, pool, descr_table, avail, used, read_idx, token_ring,
                   chan, ntok, pending, devused, delivered,
                   com_cfg, packed, closed>>

\* One store of the driver reaches the memory the device reads.
StoreReaches ==
    /\ pc = "run"
    /\ \E k \in Storable(ev.wbuf) :
         LET m == Store(MemOf(descr_table, avail, ev.wbuf), k)
         IN /\ descr_table' = m.descr_table
            /\ avail' = m.avail
            /\ ev' = [ev EXCEPT !.wbuf = m.wbuf]
    /\ UNCHANGED <<pc, pool, used, read_idx, token_ring, chan, ntok, pending,
                   devused, inflight, delivered, call, com_cfg, packed, closed>>

\* The position of the avail ring the device consumes next: it takes them
\* in order.
DevNext == Cardinality(pending)

\* The descriptors the device reads from memory along NEXT/next, from slot id.
RECURSIVE DevChain(_, _, _)
DevChain(t, id, seen) ==
    IF id \notin Ids \/ id \in seen THEN <<"stray">>
    ELSE IF t[id] = Uninit THEN <<Uninit>>
    ELSE IF "NEXT" \in Unwrap(t[id]).flags
    THEN <<Unwrap(t[id])>> \o DevChain(t, Unwrap(t[id]).next, seen \cup {id})
    ELSE <<Unwrap(t[id])>>

\* The device consumes the next published position: it reads avail.idx, the
\* ring entry and the chain of the head.
DeviceFetch ==
    /\ pc = "run"
    /\ DevNext # avail.idx
    /\ pending' = pending \cup
                    {[pos |-> DevNext, head |-> avail.ring[AvailPos(DevNext)],
                      chain |-> DevChain(descr_table,
                                         avail.ring[AvailPos(DevNext)], {})]}
    /\ UNCHANGED <<pc, pool, descr_table, avail, used, read_idx, token_ring,
                   chan, ntok, devused, inflight, delivered, ev, call,
                   com_cfg, packed, closed>>

\* A fresh queue with no push under way.
InitOrder ==
    /\ pc = "run"
    /\ pool \in MemPoolNew
    /\ descr_table = [i \in Ids |-> Uninit]
    /\ avail = [flags |-> {}, idx |-> 0, ring |-> [i \in Ids |-> 0]]
    /\ used = [flags |-> {}, idx |-> 0,
               ring |-> [i \in Ids |-> [id |-> 0, len |-> 0]]]
    /\ read_idx = 0
    /\ token_ring = [i \in Ids |-> None]
    /\ chan = [s \in Senders |-> <<>>]
    /\ ntok = 0
    /\ pending = {}
    /\ devused = <<>>
    /\ inflight = {}
    /\ delivered = <<>>
    /\ ev = NoStores
    /\ call = PushIdle
    /\ com_cfg = SplitVqNew(ComCfgInit(QSize), QSize, VqIdx, {}, "ok").cfg
    /\ packed = NoPackedVq
    /\ closed = {}

NextOrder ==
    \/ PushBegin
    \/ PushDesc
    \/ PushToken
    \/ PushRing
    \/ PushFence
    \/ PushIdx
    \/ StoreReaches
    \/ DeviceFetch

SpecOrder == InitOrder /\ [][NextOrder]_vars

\* ------------------------------------------ packed push, statement by statement
\* The descriptor ring is memory the device reads while the driver writes
\* it. packed.vq.descr_ring is the ring as the driver has written it,
\* packed.mem the slots as the device sees them and packed.wbuf the stores
\* of the driver that have not reached that memory yet, in program order;
\* call is the push in progress. tkn_ref_ring is memory of the driver alone.

\* The tokens prepared for the pushes run statement by statement.
DeferTokens == 2

\* The k-th store of the buffer reaches the ring the device reads.
PackedStore(m, k) ==
    LET s == m.wbuf[k]
    IN [m EXCEPT
          !.mem[s.loc[1]][s.loc[2]] = s.val,
          !.wbuf = [j \in 1 .. (Len(m.wbuf) - 1) |->
                       IF j < k THEN m.wbuf[j] ELSE m.wbuf[j + 1]]]

\* Every buffered store reaches the ring, oldest first.
RECURSIVE PackedDrain(_)
PackedDrain(m) == IF m.wbuf = <<>> THEN m ELSE PackedDrain(PackedStore(m, 1))

\* A fence that orders nothing.
fenceNone(m) == m

\* fence(Ordering::SeqCst): every store issued before it has reached memory
\* before any store issued after it does.
fence(m) == PackedDrain(m)

\* A store of the driver to one field of a slot of the ring.
FieldStore(slot, field, val) == [loc |-> <<slot, field>>, val |-> val]

\* The flag combination under which the device takes a descriptor as
\* available when its wrap count is w: AVAIL = w, USED = ~w.
ShowsAvail(flags, w) == ((AvailBit \in flags) = w) /\ ((UsedBit \in flags) = ~w)

\* PackedVq::dispatch enters DescriptorRing::push: the token is pinned, its
\* length asserted against the capacity and the write controller made.
DeferBegin ==
    /\ pc = "run"
    /\ call.at = "idle"
    /\ \E tkn \in packed.ready :
         LET r == packed.vq.descr_ring
             w == PackedWrites(tkn.buff_tkn)
         IN /\ packed' = [packed EXCEPT !.ready = @ \ {tkn}]
            /\ IF ~(BufferTokenLen(tkn.buff_tkn) <= r.capacity) \/ w.panic
               THEN /\ pc' = "panic"
                    /\ call' = call
               ELSE /\ pc' = "run"
                    /\ call' = [op |-> "push", at |-> "fields", tkn |-> tkn,
                                c |-> get_write_ctrler(r),
                                writes |-> w.writes, i |-> 1]
    /\ UNCHANGED <<pool, descr_table, avail, used, read_idx, token_ring,
                   chan, ntok, pending, devused, inflight, delivered, ev,
                   com_cfg, closed>>

\* write_desc up to its fence: address, len and buff_id of the slot.
DeferFields ==
    /\ pc = "run"
    /\ call.at = "fields"
    /\ LET p == call.c.position
           c2 == write_desc(call.c, call.writes[call.i].desc,
                            call.writes[call.i].flags)
           d == c2.desc_ring.ring[p]
       IN IF c2.panic
          THEN /\ pc' = "panic"
               /\ UNCHANGED <<packed, call>>
          ELSE /\ pc' = "run"
               /\ packed' = [packed EXCEPT !.wbuf =
                               @ \o <<FieldStore(p, "address", d.address),
                                      FieldStore(p, "len", d.len),
                                      FieldStore(p, "buff_id", d.buff_id)>>]
               /\ call' = [call EXCEPT !.at = "wfence"]
    /\ UNCHANGED <<pool, descr_table, avail, used, read_idx, token_ring,
                   chan, ntok, pending, devused, inflight, delivered, ev,
                   com_cfg, closed>>

\* The fence of write_desc.
DeferWriteFence ==
    /\ pc = "run"
    /\ call.at = "wfence"
    /\ packed' = fence(packed)
    /\ call' = [call EXCEPT !.at = "flags"]
    /\ UNCHANGED <<pc, pool, descr_table, avail, used, read_idx, token_ring,
                   chan, ntok, pending, devused, inflight, delivered, ev,
                   com_cfg, closed>>

\* write_desc after its fence: the flags of the slot, then incrmt.
DeferFlags ==
    /\ pc = "run"
    /\ call.at = "flags"
    /\ LET p == call.c.position
           c2 == write_desc(call.c, call.writes[call.i].desc,
                            call.writes[call.i].flags)
       IN /\ packed' = [packed EXCEPT !.wbuf =
                          Append(@, FieldStore(p, "flags",
                                               c2.desc_ring.ring[p].flags))]
          /\ call' = [call EXCEPT
                        !.c = c2,
                        !.i = @ + 1,
                        !.at = IF call.i = Len(call.writes) THEN "tkn"
                               ELSE "fields"]
    /\ UNCHANGED <<pc, pool, descr_table, avail, used, read_idx, token_ring,
                   chan, ntok, pending, devused, inflight, delivered, ev,
                   com_cfg, closed>>

\* make_avail up to its fence: the token pointer goes into tkn_ref_ring.
DeferTkn ==
    /\ pc = "run"
    /\ call.at = "tkn"
    /\ LET d == make_avail(call.c, call.tkn.raw_addr)
       IN IF d.panic
          THEN /\ pc' = "panic"
               /\ call' = call
          ELSE /\ pc' = "run"
               /\ call' = [call EXCEPT
                             !.c.desc_ring.tkn_ref_ring =
                                 d.desc_ring.tkn_ref_ring,
                             !.at = "afence"]
    /\ UNCHANGED <<pool, descr_table, avail, used, read_idx, token_ring,
                   chan, ntok, pending, devused, inflight, delivered, ev,
                   com_cfg, packed, closed>>

\* The fence of make_avail.
DeferAvailFence ==
    /\ pc = "run"
    /\ call.at = "afence"
    /\ packed' = fence(packed)
    /\ call' = [call EXCEPT !.at = "avail"]
    /\ UNCHANGED <<pc, pool, descr_table, avail, used, read_idx, token_ring,
                   chan, ntok, pending, devused, inflight, delivered, ev,
                   com_cfg, closed>>

\* make_avail after its fence: the flags of the head; push sets the state
\* of the token and returns it.
DeferAvail ==
    /\ pc = "run"
    /\ call.at = "avail"
    /\ LET d == make_avail(call.c, call.tkn.raw_addr)
           n == Len(call.writes)
       IN /\ packed' = [packed EXCEPT
                          !.wbuf = Append(@, FieldStore(call.c.start, "flags",
                                     d.desc_ring.ring[call.c.start].flags)),
                          !.vq.descr_ring = d.desc_ring,
                          !.transfers = @ \cup
                              {[call.tkn EXCEPT !.state = "Processing"]}]
          /\ inflight' = inflight \cup
                           {[start |-> call.c.start, n |-> n,
                             wrap |-> call.c.wrap_at_init,
                             buff_id |-> call.c.buff_id,
                             raw |-> call.tkn.raw_addr,
                             ring |-> d.desc_ring.ring]}
    /\ call' = PushIdle
    /\ UNCHANGED <<pc, pool, descr_table, avail, used, read_idx, token_ring,
                   chan, ntok, pending, devused, delivered, ev,
                   com_cfg, closed>>

\* One store of the driver reaches the ring the device reads.
PackedStoreReaches ==
    /\ pc = "run"
    /\ \E k \in Storable(packed.wbuf) : packed' = PackedStore(packed, k)
    /\ UNCHANGED <<pc, pool, descr_table, avail, used, read_idx, token_ring,
                   chan, ntok, pending, devused, inflight, delivered, ev,
                   call, com_cfg, closed>>

\* The device finds the descriptor at its position available under its
\* wrap count and takes the buffer: it reads the slots of the chain, and
\* moves on past them.
PackedDeviceFetch ==
    /\ pc = "run"
    /\ LET d == packed.dev
           size == Cardinality(DOMAIN packed.mem)
           r == [ring |-> packed.mem]
           n == DevChainLen(r, d.index, size)
       IN /\ ShowsAvail(packed.mem[d.index].flags, d.wrap)
          /\ packed' =
               [packed EXCEPT
                  !.dev = [index |-> (d.index + n) % size,
                           wrap |-> IF d.index + n >= size
                                    THEN ~d.wrap ELSE d.wrap,
                           seen |-> Append(d.seen,
                                      [head |-> d.index,
                                       chain |-> [j \in 0 .. (n - 1) |->
                                          packed.mem[(d.index + j) % size]]])]]
    /\ UNCHANGED <<pc, pool, descr_table, avail, used, read_idx, token_ring,
                   chan, ntok, pending, devused, inflight, delivered, ev,
                   call, com_cfg, closed>>

\* After PackedVq::new(com_cfg, PSize, VqIdx): the memory of the ring is
\* what DescriptorRing::new wrote, no store is under way and the device
\* stands at slot 0 with wrap count 1.
InitDefer ==
    /\ pc = "run"
    /\ NoSplitVq
    /\ call = PushIdle
    /\ closed = {}
    /\ ev = [op |-> "new"]
    /\ \E max \in PackedDevSizes :
         /\ com_cfg = PackedVqNew(ComCfgInit(max), PSize, VqIdx).cfg
         /\ \E p \in PackedMemPoolNew(PSize) :
              LET vq == PackedVqOf(ComCfgInit(max), PSize, VqIdx, p)
              IN packed = [vq |-> vq, ready |-> {}, transfers |-> {},
                           mem |-> vq.descr_ring.ring, wbuf |-> <<>>,
                           dev |-> [index |-> 0, wrap |-> TRUE, seen |-> <<>>]]

NextDefer ==
    \/ (call.at = "idle" /\ ntok < DeferTokens /\ PrepTransfer)
    \/ DeferBegin
    \/ DeferFields
    \/ DeferWriteFence
    \/ DeferFlags
    \/ DeferTkn
    \/ DeferAvailFence
    \/ DeferAvail
    \/ PackedStoreReaches
    \/ PackedDeviceFetch

SpecDefer == InitDefer /\ [][NextDefer]_vars

\* --------------------------------------------------- descriptors as raw bytes
\* A u64 is written here as its eight base-256 digits, most significant
\* first; a u32 and a u16 are integers.
Byte == 256

\* u64::to_le_bytes
u64_to_le_bytes(d) == [i \in 1 .. 8 |-> d[9 - i]]

\* u32::to_le_bytes
u32_to_le_bytes(v) ==
    <<v % Byte, (v \div Byte) % Byte, (v \div (Byte * Byte)) % Byte,
      (v \div (Byte * Byte * Byte)) % Byte>>

\* u16::to_le_bytes
u16_to_le_bytes(v) == <<v % Byte, (v \div Byte) % Byte>>

\* The u16 whose set bits are the given ones.
RECURSIVE BitsValue(_)
BitsValue(bits) ==
    IF bits = {} THEN 0
    ELSE LET b == CHOOSE x \in bits : TRUE
         IN 2 ^ b + BitsValue(bits \ {b})

\* Descriptor::new(add, len, id, flags)
DescriptorOf(add, len, id, flags) ==
    [address |-> add, len |-> len, buff_id |-> id, flags |-> flags]

\* A loop `for byte in 0..n { desc_bytes[desc_bytes_cnt] = src[byte]; }` of
\* to_le_bytes from its i-th pass on, the counter going up by inc each pass.
RECURSIVE CopyBytes(_, _, _, _)
CopyBytes(st, src, i, inc) ==
    IF i > Len(src) THEN st
    ELSE CopyBytes([desc_bytes |-> [st.desc_bytes EXCEPT
                                      ![st.desc_bytes_cnt + 1] = src[i]],
                    desc_bytes_cnt |-> st.desc_bytes_cnt + inc],
                   src, i + 1, inc)

\* Descriptor::to_le_bytes: the loops over the address, the length and the
\* buffer id advance desc_bytes_cnt, the loop over the flags does not.
to_le_bytes(self) ==
    LET s0 == [desc_bytes |-> [i \in 1 .. DescSize |-> 0], desc_bytes_cnt |-> 0]
        s1 == CopyBytes(s0, u64_to_le_bytes(self.address), 1, 1)
        s2 == CopyBytes(s1, u32_to_le_bytes(self.len), 1, 1)
        s3 == CopyBytes(s2, u16_to_le_bytes(self.buff_id), 1, 1)
        s4 == CopyBytes(s3, u16_to_le_bytes(BitsValue(self.flags)), 1, 0)
    IN s4.desc_bytes

\* The raw entries of an indirect table for the descriptors lst, each built
\* with buff_id 0 and the given flags.
RECURSIVE RawEntries(_, _, _)
RawEntries(lst, flags, i) ==
    IF i > Len(lst) THEN <<>>
    ELSE to_le_bytes(DescriptorOf(lst[i].ptr, lst[i].len, 0, flags))
             \o RawEntries(lst, flags, i + 1)

\* PackedVq::create_indirect_ctrl(send, recv) with `free` ids in the pool:
\* the bytes of the control descriptor pulled, or the error.
PackedVq_create_indirect_ctrl(send, recv, free) ==
    IF send = None /\ recv = None
    THEN [ok |-> FALSE, err |-> "BufferNotSpecified", len |-> 0, bytes |-> <<>>]
    ELSE LET len == Len(FlatDescs(send)) + Len(FlatDescs(recv))
         IN IF free = 0
            THEN [ok |-> FALSE, err |-> "NoDescrAvail", len |-> len,
                  bytes |-> <<>>]
            ELSE [ok |-> TRUE, err |-> "", len |-> DescSize * len,
                  bytes |-> RawEntries(FlatDescs(send), {}, 1)
                            \o RawEntries(FlatDescs(recv),
                                          VIRTQ_DESC_F_WRITE, 1)]

\* The field values to_le_bytes is applied to: every byte of a field
\* different from the others, and the ends of the range.
Addresses ==
    {<<0, 0, 0, 0, 0, 0, 0, 0>>, <<0, 0, 0, 0, 0, 0, 0, 1>>,
     <<1, 2, 3, 4, 5, 6, 7, 8>>, <<255, 255, 255, 255, 255, 255, 255, 255>>}

Lengths == {0, 1, 16909060, 2147483647}

BuffIds == {0, 1, 258, 65535}

FlagSets ==
    {{}, VIRTQ_DESC_F_NEXT, VIRTQ_DESC_F_WRITE, VIRTQ_DESC_F_INDIRECT,
     {AvailBit}, {UsedBit}, VIRTQ_DESC_F_WRITE \cup {UsedBit}, U16Bits}

\* Largest number of descriptors of one side of an indirect table.
MaxRawDescs == 2

\* The descriptor lists create_indirect_ctrl is called with.
RawDescLsts ==
    UNION {[1 .. n -> {MemDescr(a, l, None) : a \in {<<0, 0, 0, 0, 0, 0, 0, 1>>,
                                                     <<1, 2, 3, 4, 5, 6, 7, 8>>},
                                              l \in {1, 16909060}}]
           : n \in 1 .. MaxRawDescs}

OptRawDescLsts == {None} \cup {Some(l) : l \in RawDescLsts}

\* A call of to_le_bytes on a descriptor, or of create_indirect_ctrl on a
\* queue whose pool holds one id or none.
InitBytes ==
    /\ pc = "run"
    /\ NoSplitVq
    /\ closed = {}
    /\ com_cfg = <<>>
    /\ packed = NoPackedVq
    /\ ev = [op |-> "new"]
    /\ \/ \E a \in Addresses, l \in Lengths, id \in BuffIds, f \in FlagSets :
            call = [op |-> "to_le_bytes", self |-> DescriptorOf(a, l, id, f)]
       \/ \E send \in OptRawDescLsts, recv \in OptRawDescLsts, free \in {0, 1} :
            call = [op |-> "create_indirect_ctrl", send |-> send,
                    recv |-> recv, free |-> free]

\* Descriptor::to_le_bytes
ToLeBytes ==
    /\ pc = "run"
    /\ call.op = "to_le_bytes"
    /\ ev' = [op |-> "to_le_bytes", self |-> call.self,
              bytes |-> to_le_bytes(call.self)]
    /\ call' = NoCall
    /\ UNCHANGED <<pc, pool, descr_table, avail, used, read_idx, token_ring,
                   chan, ntok, pending, devused, inflight, delivered,
                   com_cfg, packed, closed>>

\* PackedVq::create_indirect_ctrl
PackedCreateIndirectCtrl ==
    /\ pc = "run"
    /\ call.op = "create_indirect_ctrl"
    /\ LET o == PackedVq_create_indirect_ctrl(call.send, call.recv, call.free)
       IN ev' = [op |-> "create_indirect_ctrl", send |-> call.send,
                 recv |-> call.recv, ok |-> o.ok, err |-> o.err,
                 bytes |-> o.bytes]
    /\ call' = NoCall
    /\ UNCHANGED <<pc, pool, descr_table, avail, used, read_idx, token_ring,
                   chan, ntok, pending, devused, inflight, delivered,
                   com_cfg, packed, closed>>

NextBytes ==
    \/ ToLeBytes
    \/ PackedCreateIndirectCtrl

SpecBytes == InitBytes /\ [][NextBytes]_vars

\* ------------------------------------------------ the ring indices at the wrap
\* The index arithmetic of push and poll on a queue of any size new
\* returns, with avail.idx, used.idx and read_idx close to 2^16. avail.ring
\* holds the entries written so far; call keeps the length of token_ring
\* and the positions of the two rings the calls have used, in order.

\* Pushes and polled elements in one behaviour.
IdxSteps == 3

\* The values avail.idx has when the behaviour begins.
IdxStarts == {0, IdxMod - 2, IdxMod - 1}

\* idx as usize % len
RingPos(idx, len) == idx % len

\* The part of push after the chain is written (the head is index):
\* token_ring, the avail ring entry at idx % len, wrapping_add(1).
PushPublish ==
    /\ pc = "run"
    /\ Len(call.pushed) < IdxSteps
    /\ LET index == Len(call.pushed) % call.len
           idx == avail.idx
           pos == RingPos(idx, call.len)
       IN /\ avail' = [flags |-> avail.flags,
                       idx |-> NextIdx(idx),
                       ring |-> [p \in DOMAIN avail.ring \cup {pos} |->
                                   IF p = pos THEN index ELSE avail.ring[p]]]
          /\ call' = [call EXCEPT !.pushed = Append(@, [idx |-> idx, pos |-> pos])]
          /\ ev' = [op |-> "push", idx |-> idx, pos |-> pos,
                    next_idx |-> NextIdx(idx)]
    /\ UNCHANGED <<pc, pool, descr_table, used, read_idx, token_ring, chan,
                   ntok, pending, devused, inflight, delivered,
                   com_cfg, packed, closed>>

\* One pass of the loop of poll: the used element at read_idx % len is
\* read, then read_idx.wrapping_add(1).
PollAdvance ==
    /\ pc = "run"
    /\ read_idx # used.idx
    /\ LET pos == RingPos(read_idx, call.len)
       IN /\ call' = [call EXCEPT
                        !.polled = Append(@, [idx |-> read_idx, pos |-> pos])]
          /\ ev' = [op |-> "poll", idx |-> read_idx, pos |-> pos,
                    next_idx |-> NextReadIdx(read_idx)]
    /\ read_idx' = NextReadIdx(read_idx)
    /\ UNCHANGED <<pc, pool, descr_table, avail, used, token_ring, chan,
                   ntok, pending, devused, inflight, delivered,
                   com_cfg, packed, closed>>

\* A queue SplitVq::new has returned in Ok, after so many pushes and
\* completions that avail.idx is a, the device has used every head and
\* poll has k used elements to read.
InitIdx ==
    /\ pc = "run"
    /\ pool = <<>>
    /\ descr_table = <<>>
    /\ token_ring = <<>>
    /\ chan = <<>>
    /\ ntok = 0
    /\ pending = {}
    /\ devused = <<>>
    /\ inflight = {}
    /\ delivered = <<>>
    /\ ev = [op |-> "new"]
    /\ packed = NoPackedVq
    /\ closed = {}
    /\ \E size \in NewSizes, max \in DevQueueSizes :
         LET o == SplitVqNew(ComCfgInit(max), size, VqIdx, {}, "ok")
         IN /\ o.res.kind = "Ok"
            /\ o.res.size > 0
            /\ com_cfg = o.cfg
            /\ call = [op |-> "idx", len |-> o.res.size, pushed |-> <<>>,
                       polled |-> <<>>]
    /\ \E a \in IdxStarts, k \in 0 .. IdxSteps :
         /\ avail = [flags |-> {}, idx |-> a, ring |-> <<>>]
         /\ used = [flags |-> {}, idx |-> a, ring |-> <<>>]
         /\ read_idx = (a + IdxMod - k) % IdxMod

NextIdxWrap ==
    \/ PushPublish
    \/ PollAdvance

SpecIdx == InitIdx /\ [][NextIdxWrap]_vars

\* ------------------------------------------------------------- properties
\* The slots of the chain headed by h in table t: h, then each slot reached
\* through NEXT/next, up to a descriptor without NEXT (or a slot never
\* written, or one already visited).
RECURSIVE ChainFrom(_, _, _)
ChainFrom(t, id, seen) ==
    IF id \in seen \/ id \notin Ids THEN <<>>
    ELSE IF t[id] = Uninit THEN <<id>>
    ELSE IF "NEXT" \in Unwrap(t[id]).flags
         THEN <<id>> \o ChainFrom(t, Unwrap(t[id]).next, seen \cup {id})
         ELSE <<id>>

ChainSlots(t, h) == ChainFrom(t, h, {})

SeqSet(q) == {q[i] : i \in 1 .. Len(q)}

\* How often the pool holds an id.
PoolCount(p, id) == Cardinality({i \in 1 .. Len(p) : p[i] = id})

SamePool(p, q) == \A id \in Ids : PoolCount(p, id) = PoolCount(q, id)

\* The ids held by the chains in flight.
InFlightIds == UNION {SeqSet(f.slots) : f \in inflight}

\* C1: descriptor accounting. After any sequence of push and poll calls the
\* ids absent from the free pool are exactly the slots of the chains still
\* in flight, and once nothing is in flight the pool holds every id of the
\* queue exactly once.
C1_DescriptorAccounting ==
    pc = "run" =>
        /\ Ids \ PoolIds(pool) = InFlightIds
        /\ inflight = {} => \A id \in Ids : PoolCount(pool, id) = 1

\* C2: for every used element (id = h) poll consumed, the ids it returned to
\* the pool are exactly the slots of the chain headed by h, each once,
\* whatever the position of the element in the used ring.
C2_PollReturnsChainOfHead ==
    ev.op = "poll" =>
        \A i \in 1 .. Len(ev.elems) :
            ev.elems[i].end = "ok" =>
                ev.elems[i].ret = ChainSlots(descr_table, ev.elems[i].id)

\* C3: a push that fails with NoDescrAvail leaves the free pool as it was
\* before the call and leaves avail.idx, the avail ring and token_ring
\* unchanged.
C3_FailedPushRollsBack ==
    (ev.op = "dispatch_await" /\ ~ev.ok) =>
        /\ SamePool(pool, ev.old_pool)
        /\ avail.idx = ev.old_idx
        /\ avail.ring = ev.old_ring
        /\ token_ring = ev.old_token_ring

\* The descriptor the i-th slot of a published direct chain must hold for
\* the buffer token b: the send descriptors in buffer order, then the
\* receive descriptors in buffer order.
ChainDescOk(d, b, i, n, nxt) ==
    /\ d.addr = IF i <= b.ns THEN <<b.id, "send", i>>
                ELSE <<b.id, "recv", i - b.ns>>
    /\ ("WRITE" \in d.flags) <=> (i > b.ns)
    /\ ("NEXT" \in d.flags) <=> (i < n)
    /\ "INDIRECT" \notin d.flags
    /\ i < n => d.next = nxt

C6_PollInUsedOrder ==
    (ev.op = "poll" /\ pc = "run") =>
        /\ read_idx = ev.used_idx
        /\ Len(ev.elems) = (ev.used_idx - ev.old_read_idx + IdxMod) % IdxMod
        /\ Len(delivered) = ev.old_delivered + Len(ev.elems)
        /\ \A i \in 1 .. Len(ev.elems) :
             LET e == ev.elems[i]
                 u == devused[ev.old_read_idx + i]
                 d == delivered[ev.old_delivered + i]
             IN /\ e.pos = ((ev.old_read_idx + i - 1) % IdxMod) % QSize
                /\ e.id = u.id
                /\ e.len = u.len
                /\ d.used_elem = [id |-> u.id, len |-> u.len]
                /\ d.tok = e.tok
                /\ d.upos = (ev.old_read_idx + i - 1) % IdxMod

\* One poll delivers two tokens in the order the device reported them, the
\* reverse of the order they were dispatched in.
C6_Witness ==
    /\ ev.op = "poll"
    /\ pc = "run"
    /\ Len(ev.elems) = 2
    /\ ev.elems[1].tok > ev.elems[2].tok
    /\ delivered[Len(delivered) - 1].tok = devused[ev.old_read_idx + 1].tok
    /\ delivered[Len(delivered)].tok = devused[ev.old_read_idx + 2].tok

\* C7: every token dispatched whose head the device put in the used ring
\* has been delivered exactly once to the sender given at dispatch once poll
\* has returned with the used ring drained, and no token is delivered that
\* the device has not marked used.
C7_DeliveredExactlyOnce ==
    (pc = "run" /\ ev.op = "poll" /\ read_idx = used.idx) =>
        /\ \A j \in 1 .. Len(devused) :
             Cardinality({i \in 1 .. Len(delivered) :
                            /\ delivered[i].tok = devused[j].tok
                            /\ delivered[i].to = devused[j].sender}) = 1
        /\ \A i \in 1 .. Len(delivered) :
             \E j \in 1 .. Len(devused) : delivered[i].tok = devused[j].tok

\* C8: round-trip lengths. A token with a receive buffer of logical length
\* L whose used element reports len = k <= L is delivered with receive
\* length exactly k (its send length untouched); a token without a receive
\* buffer is delivered with its lengths as they were.
C8_RoundTripLengths ==
    \A i \in 1 .. Len(delivered) :
        LET d == delivered[i]
        IN IF d.orig.nr > 0
           THEN /\ d.used_elem.len <= d.orig.rlen
                /\ d.btkn.rlen = d.used_elem.len
                /\ d.btkn.slen = d.orig.slen
           ELSE d.btkn = d.orig

\* A token with a receive buffer was delivered with fewer bytes than its
\* buffer holds, and a token without one was delivered too.
C8_Witness ==
    /\ \E i \in 1 .. Len(delivered) :
         /\ delivered[i].orig.nr > 0
         /\ delivered[i].used_elem.len > 0
         /\ delivered[i].used_elem.len < delivered[i].orig.rlen
         /\ delivered[i].btkn.rlen = delivered[i].used_elem.len
    /\ \E i \in 1 .. Len(delivered) : delivered[i].orig.nr = 0

\* C9: no descriptor id belongs to the chains of two in-flight tokens, and
\* token_ring[h] holds a token exactly when h is the head of an in-flight
\* chain: push never stores into an occupied slot of token_ring.
C9_ExclusiveSlots ==
    pc = "run" =>
        /\ \A f, g \in inflight :
             f # g => SeqSet(f.slots) \cap SeqSet(g.slots) = {}
        /\ \A h \in Ids :
             (token_ring[h] # None) <=> (\E f \in inflight : f.head = h)
        /\ (ev.op = "dispatch_await" /\ ev.ok) =>
             ev.old_token_ring[ev.index] = None

\* C10: dispatch_await signals the device exactly when the push succeeded
\* and used.flags did not contain NO_NOTIFY at that moment, and the
\* notification carries the queue index and the avail idx push returned.
C10_NotifyIffAllowed ==
    ev.op = "dispatch_await" =>
        /\ ev.notified <=> (ev.ok /\ ~ev.no_notify)
        /\ ev.notified => ev.data = [vqn |-> VqIdx, next_idx |-> avail.idx]

\* C11: enable_notifs leaves NO_INTERRUPT clear in avail.flags and
\* disable_notifs leaves it set, whatever the bit was before (so a repeated
\* call changes nothing and the last call decides the bit); a step that is
\* one of the two calls changes nothing but avail.flags: avail.idx, the
\* avail ring entries, the descriptor table, token_ring, read_idx and the
\* pool stay as they were. Between calls nothing else changes the bit.
C11_NotifFlagOnly ==
    [][/\ ev'.op = "enable_notifs" => "NO_INTERRUPT" \notin avail'.flags
       /\ ev'.op = "disable_notifs" => "NO_INTERRUPT" \in avail'.flags
       /\ avail'.flags # avail.flags =>
            /\ ev'.op \in {"enable_notifs", "disable_notifs"}
            /\ avail'.idx = avail.idx
            /\ avail'.ring = avail.ring
            /\ UNCHANGED <<descr_table, token_ring, read_idx, pool>>
       /\ (ev' # ev /\ ev'.op \in {"enable_notifs", "disable_notifs"}) =>
            /\ avail'.idx = avail.idx
            /\ avail'.ring = avail.ring
            /\ UNCHANGED <<descr_table, token_ring, read_idx, pool>>]_vars

\* disable_notifs was called with the bit already set, on a queue that has
\* a chain in flight and a published head.
C11_Witness ==
    /\ ev.op = "disable_notifs"
    /\ ev.was
    /\ "NO_INTERRUPT" \in avail.flags
    /\ inflight # {}
    /\ avail.idx = 2

\* C12: for send descriptors s_0..s_(m-1) and receive descriptors
\* r_0..r_(n-1), create_indirect_ctrl with m+n = 0 returns BufferNotSpecified
\* and with m+n >= 1 returns a table of exactly m+n entries: entry i < m is
\* s_i without WRITE, entry m+j is r_j with WRITE, every entry but the last
\* has NEXT and next = i+1 (its 0-based position plus one), the last has no
\* NEXT and next = 0; no entry carries INDIRECT.
C12_IndirectTable ==
    (call.op = "create_indirect_ctrl" /\ call.res # None) =>
        LET s == FlatDescs(call.send)
            r == FlatDescs(call.recv)
            m == Len(s)
            n == Len(r)
            res == Unwrap(call.res)
            t == res.table
        IN IF m + n = 0
           THEN ~res.ok /\ res.err = "BufferNotSpecified"
           ELSE /\ res.ok
                /\ Len(t) = m + n
                /\ \A i \in 1 .. m :
                     /\ t[i].addr = s[i].ptr
                     /\ t[i].len = s[i].len
                     /\ "WRITE" \notin t[i].flags
                /\ \A j \in 1 .. n :
                     /\ t[m + j].addr = r[j].ptr
                     /\ t[m + j].len = r[j].len
                     /\ "WRITE" \in t[m + j].flags
                /\ \A i \in 1 .. (m + n - 1) :
                     "NEXT" \in t[i].flags /\ t[i].next = i
                /\ "NEXT" \notin t[m + n].flags
                /\ t[m + n].next = 0
                /\ \A i \in 1 .. (m + n) : "INDIRECT" \notin t[i].flags

\* The table for send sizes [8,8] and receive size [16]: three entries
\* linked 0->1->2.
C12_Witness ==
    /\ call.op = "create_indirect_ctrl"
    /\ call.res # None
    /\ call.send # None
    /\ call.recv # None
    /\ Len(Unwrap(call.send)) = 2
    /\ Len(Unwrap(call.recv)) = 1
    /\ \A i \in 1 .. 2 : Unwrap(call.send)[i].len = 8
    /\ Unwrap(call.recv)[1].len = 16
    /\ Len(Unwrap(call.res).table) = 3
    /\ Unwrap(call.res).table[1].next = 1
    /\ Unwrap(call.res).table[2].next = 2

\* C13: a successful push of a token that carries an indirect control table
\* takes exactly one id from the pool (the last of the vector) and changes
\* exactly one slot of the descriptor table, the one of that id, to a
\* descriptor with flags = {INDIRECT}, len = 16 * (number of entries of the
\* table the token carries) and next = 0, whatever the number of memory
\* descriptors of the token.
C13_IndirectOneSlot ==
    [][(/\ ntok' = ntok + 1
        /\ ev'.op = "dispatch_await"
        /\ ev'.ok
        /\ ev'.tkn.ctrl_desc # None) =>
            /\ pool # <<>>
            /\ pool' = PoolPop(pool)
            /\ ev'.index = PoolTop(pool)
            /\ ev'.drawn = <<ev'.index>>
            /\ \A i \in Ids \ {ev'.index} : descr_table'[i] = descr_table[i]
            /\ descr_table'[ev'.index] # Uninit
            /\ Unwrap(descr_table'[ev'.index]).flags = {"INDIRECT"}
            /\ Unwrap(descr_table'[ev'.index]).len =
                   16 * Unwrap(ev'.tkn.ctrl_desc)
            /\ Unwrap(descr_table'[ev'.index]).next = 0]_vars

\* An indirect token of three memory descriptors (send 2, receive 1) was
\* pushed as the second token: one id drawn, len 48 in its slot.
C13_Witness ==
    /\ ev.op = "dispatch_await"
    /\ ev.ok
    /\ ev.tkn.ctrl_desc # None
    /\ ev.tkn.buff_tkn.ns = 2
    /\ ev.tkn.buff_tkn.nr = 1
    /\ ntok = 2
    /\ Len(ev.drawn) = 1
    /\ Len(pool) = Len(ev.old_pool) - 1
    /\ Unwrap(ev.tkn.ctrl_desc) = 3
    /\ Unwrap(descr_table[ev.index]).len = 48

\* The positions of op in the log of calls.
LogPos(log, op) == {i \in 1 .. Len(log) : log[i] = op}

\* op was called exactly once, and before every call of the ops of later.
CalledOnceBefore(log, op, later) ==
    /\ Cardinality(LogPos(log, op)) = 1
    /\ \A o \in later : \A i \in LogPos(log, op), j \in LogPos(log, o) : i < j

\* No address of queue q is published and q is not enabled.
NothingPublished(cfg) ==
    /\ \A q \in DevQueues :
         /\ cfg.ring_addr[q] = None
         /\ cfg.drv_ctrl_addr[q] = None
         /\ cfg.dev_ctrl_addr[q] = None
         /\ ~cfg.enabled[q]
    /\ \A op \in {"set_ring_addr", "set_drv_ctrl_addr", "set_dev_ctrl_addr",
                   "enable_queue"} : LogPos(cfg.log, op) = {}

\* C14: a successful SplitVq::new calls, each once and in this order,
\* select_vq, set_vq_size, the three ring allocations, set_ring_addr
\* (descriptor table), set_drv_ctrl_addr (driver area), set_dev_ctrl_addr
\* (device area) and enable_queue, and leaves the three addresses of the
\* queue published and the queue enabled; a queue is never enabled without
\* its three addresses; new returns QueueNotExisting(index) exactly when the
\* transport has no such queue and AllocationError when the avail or used
\* ring cannot be allocated, and whenever it does not return Ok no address
\* is published and no queue is enabled.
C14_ConfigProtocol ==
    (call.op = "SplitVq::new" /\ call.res # None) =>
        LET res == Unwrap(call.res)
            log == com_cfg.log
            q == call.index
        IN /\ (res.kind = "Err" /\ res.err = "QueueNotExisting")
                <=> q \notin DevQueues
           /\ (res.kind = "Err" /\ res.err = "QueueNotExisting")
                => res.arg = q
           /\ (q \in DevQueues /\ call.alloc \in {"avail", "used"})
                => (res.kind = "Err" /\ res.err = "AllocationError")
           /\ res.kind = "Ok" <=> (q \in DevQueues /\ call.alloc = "ok")
           /\ res.kind # "Ok" => NothingPublished(com_cfg)
           /\ \A x \in DevQueues : com_cfg.enabled[x] =>
                /\ com_cfg.ring_addr[x] # None
                /\ com_cfg.drv_ctrl_addr[x] # None
                /\ com_cfg.dev_ctrl_addr[x] # None
           /\ res.kind = "Ok" =>
                /\ CalledOnceBefore(log, "select_vq",
                       {"set_vq_size", "alloc_descr_table", "alloc_avail",
                        "alloc_used", "set_ring_addr", "set_drv_ctrl_addr",
                        "set_dev_ctrl_addr", "enable_queue"})
                /\ CalledOnceBefore(log, "set_vq_size",
                       {"alloc_descr_table", "alloc_avail", "alloc_used",
                        "set_ring_addr", "set_drv_ctrl_addr",
                        "set_dev_ctrl_addr", "enable_queue"})
                /\ \A al \in {"alloc_descr_table", "alloc_avail", "alloc_used"} :
                     CalledOnceBefore(log, al,
                       {"set_ring_addr", "set_drv_ctrl_addr",
                        "set_dev_ctrl_addr", "enable_queue"})
                /\ CalledOnceBefore(log, "set_ring_addr",
                       {"set_drv_ctrl_addr", "set_dev_ctrl_addr", "enable_queue"})
                /\ CalledOnceBefore(log, "set_drv_ctrl_addr",
                       {"set_dev_ctrl_addr", "enable_queue"})
                /\ CalledOnceBefore(log, "set_dev_ctrl_addr", {"enable_queue"})
                /\ CalledOnceBefore(log, "enable_queue", {})
                /\ com_cfg.ring_addr[q] = Some(<<"descr_table", q>>)
                /\ com_cfg.drv_ctrl_addr[q] = Some(<<"avail_ring", q>>)
                /\ com_cfg.dev_ctrl_addr[q] = Some(<<"used_ring", q>>)
                /\ com_cfg.enabled[q]
                /\ \A x \in DevQueues \ {q} :
                     /\ com_cfg.ring_addr[x] = None
                     /\ ~com_cfg.enabled[x]

\* SplitVq::new of queue 1 with size 4 succeeded: the queue is enabled.
C14_Witness ==
    /\ call.op = "SplitVq::new"
    /\ call.res # None
    /\ Unwrap(call.res).kind = "Ok"
    /\ call.index = 1
    /\ call.size = 4
    /\ com_cfg.enabled[1]
    /\ Len(com_cfg.log) = 10

\* The sizes a split queue may have: the powers of two up to 32768.
SplitSizeAllowed(size) == size \in {2 ^ k : k \in 0 .. 15}

\* C15: SplitVq::new of a queue the transport has, with a size that is 0,
\* not a power of two or above 32768, returns SizeNotAllowed(size) and
\* publishes no ring address and enables no queue.
C15_SplitSizeChecked ==
    (/\ call.op = "SplitVq::new"
     /\ call.res # None
     /\ call.index \in DevQueues
     /\ ~SplitSizeAllowed(call.size)) =>
        /\ Unwrap(call.res).kind = "Err"
        /\ Unwrap(call.res).err = "SizeNotAllowed"
        /\ Unwrap(call.res).arg = call.size
        /\ NothingPublished(com_cfg)

\* C16: PackedVq::new returns QueueNotExisting(index) when the transport has
\* no queue of that index; for a queue it has, it returns
\* SizeNotAllowed(size) when size is 0 or above 32768 and Ok for every size
\* in 1..=32768; in both error cases set_vq_size is not called, the size
\* register of every queue is as before and no ring or event-area address
\* is published.
C16_PackedNewErrors ==
    (call.op = "PackedVq::new" /\ call.res # None) =>
        LET res == Unwrap(call.res)
            q == call.index
            quiet == /\ NothingPublished(com_cfg)
                     /\ LogPos(com_cfg.log, "set_vq_size") = {}
                     /\ \E max \in DevQueueSizes :
                          com_cfg.queue_size = ComCfgInit(max).queue_size
        IN /\ q \notin DevQueues =>
                /\ res.kind = "Err" /\ res.err = "QueueNotExisting"
                /\ res.arg = q
                /\ quiet
           /\ (q \in DevQueues /\ (call.size = 0 \/ call.size > 32768)) =>
                /\ res.kind = "Err" /\ res.err = "SizeNotAllowed"
                /\ res.arg = call.size
                /\ quiet
           /\ (q \in DevQueues /\ call.size >= 1 /\ call.size <= 32768) =>
                /\ res.kind = "Ok"
                /\ res.size = call.size
                /\ com_cfg.ring_addr[q] # None

\* PackedVq::new of an existing queue with size 32769 was refused.
C16_Witness ==
    /\ call.op = "PackedVq::new"
    /\ call.res # None
    /\ call.index \in DevQueues
    /\ call.size = 32769
    /\ Unwrap(call.res).err = "SizeNotAllowed"
    /\ Unwrap(call.res).arg = 32769

\* The ids the elements of a poll returned to the pool, in order.
RECURSIVE RetsOf(_)
RetsOf(elems) ==
    IF elems = <<>> THEN <<>> ELSE Head(elems).ret \o RetsOf(Tail(elems))

\* C17: a poll whose next used element names an id with no token in
\* token_ring panics at once, delivering nothing and returning no id; and
\* whenever poll panics on such an element, after others or not, it has
\* delivered one token for each earlier element and none for this one, the
\* pool has gained the ids returned for the earlier elements only, and
\* read_idx stays at the element.
C17_NoTokenIsFatal ==
    [][/\ (/\ pc = "run"
           /\ ev'.op = "poll"
           /\ ev' # ev
           /\ read_idx # used.idx
           /\ token_ring[used.ring[CurRingIndex(read_idx)].id] = None) =>
              /\ pc' = "panic"
              /\ Len(ev'.elems) = 1
              /\ ev'.elems[1].end = "notoken"
              /\ UNCHANGED <<pool, delivered, chan, read_idx, token_ring>>
       /\ (/\ pc = "run"
           /\ pc' = "panic"
           /\ ev'.op = "poll"
           /\ ev'.elems # <<>>
           /\ ev'.elems[Len(ev'.elems)].end = "notoken") =>
              LET n == Len(ev'.elems)
                  last == ev'.elems[n]
              IN /\ last.ret = <<>>
                 /\ pool' = pool \o RetsOf(ev'.elems)
                 /\ Len(delivered') = Len(delivered) + n - 1
                 /\ \A k \in 1 .. (n - 1) :
                      delivered'[Len(delivered) + k].tok = ev'.elems[k].tok
                 /\ read_idx' = (read_idx + n - 1) % IdxMod
                 /\ token_ring'[last.id] = None]_vars

\* poll delivered the token of one used element and then panicked on an
\* element the device wrote out of turn.
C17_Witness ==
    /\ pc = "panic"
    /\ ev.op = "poll"
    /\ Len(ev.elems) = 2
    /\ ev.elems[1].end = "ok"
    /\ ev.elems[2].end = "notoken"
    /\ \E i \in 1 .. Len(devused) : devused[i].tok = 0
    /\ Len(delivered) = ev.old_delivered + 1

\* C18: a poll that returns has delivered a token for every used element it
\* went through; when try_send fails for a token because the endpoint is
\* closed or full, poll panics at that element: the tokens of the earlier
\* elements are delivered, this one is not, no id is returned for it,
\* read_idx stays at the element and the elements after it are not looked
\* at.
C18_DeliveryFailureIsFatal ==
    [][/\ (pc = "run" /\ pc' = "run" /\ ev'.op = "poll" /\ ev' # ev) =>
              /\ \A k \in 1 .. Len(ev'.elems) : ev'.elems[k].end = "ok"
              /\ Len(delivered') = Len(delivered) + Len(ev'.elems)
              /\ read_idx' = used.idx
       /\ (/\ pc = "run"
           /\ ev'.op = "poll"
           /\ ev' # ev
           /\ \E k \in 1 .. Len(ev'.elems) :
                 ev'.elems[k].end \in {"full", "closed"}) =>
              LET n == Len(ev'.elems)
                  last == ev'.elems[n]
              IN /\ pc' = "panic"
                 /\ last.end \in {"full", "closed"}
                 /\ \A k \in 1 .. (n - 1) : ev'.elems[k].end = "ok"
                 /\ last.ret = <<>>
                 /\ Len(delivered') = Len(delivered) + n - 1
                 /\ \A k \in 1 .. Len(delivered') :
                      k > Len(delivered) => delivered'[k].tok # last.tok
                 /\ \A s \in Senders : \A k \in 1 .. Len(chan'[s]) :
                      chan'[s][k].id # last.tok
                 /\ read_idx' = (read_idx + n - 1) % IdxMod]_vars

\* poll panicked on a full endpoint with a further used element waiting
\* behind the one it could not deliver.
C18_Witness ==
    /\ pc = "panic"
    /\ ev.op = "poll"
    /\ ev.elems # <<>>
    /\ ev.elems[Len(ev.elems)].end = "full"
    /\ (used.idx - read_idx) % IdxMod >= 2

\* poll panicked on an endpoint whose receiving end was dropped.
C18_WitnessClosed ==
    /\ pc = "panic"
    /\ ev.op = "poll"
    /\ ev.elems # <<>>
    /\ ev.elems[Len(ev.elems)].end = "closed"
    /\ closed # {}

\* The number of ring slots a push of the token writes.
PushSlots(tkn) == Len(PackedWrites(tkn.buff_tkn).writes)

\* C19: a packed push of a token that needs k ring slots while capacity < k
\* fails with NoDescrAvail (the call returns, the kernel runs on) and leaves
\* the descriptor ring, write_index, wrap_count, capacity and the tracking
\* table unchanged.
C19_PackedPushNoDescrAvail ==
    (ev.op = "dispatch" /\ ev.old.capacity < PushSlots(ev.tkn))
        => /\ pc = "run"
           /\ ~ev.panic
           /\ packed.vq.descr_ring = ev.old

\* C20: the ring starts with write_index 0 and capacity size; a push of k
\* descriptors lowers capacity by k and moves write_index forward by k
\* modulo size; write_index stays in 0 .. size-1 and capacity in 0 .. size.
C20_PackedAccounting ==
    LET r == packed.vq.descr_ring
        size == RingLen(r)
    IN /\ r.write_index \in 0 .. size - 1
       /\ r.capacity \in 0 .. size
       /\ ev.op = "new" => (r.write_index = 0 /\ r.capacity = size)
       /\ (ev.op = "dispatch" /\ ~ev.panic)
            => /\ r.capacity = ev.old.capacity - PushSlots(ev.tkn)
               /\ r.write_index
                    = (ev.old.write_index + PushSlots(ev.tkn)) % size

\* size single-descriptor pushes on a ring of the size asked for have
\* brought capacity to 0 and write_index back to 0.
C20_Witness ==
    LET r == packed.vq.descr_ring
    IN /\ pc = "run"
       /\ ev.op = "dispatch"
       /\ ~ev.panic
       /\ PushSlots(ev.tkn) = 1
       /\ RingLen(r) = PSize
       /\ r.capacity = 0
       /\ r.write_index = 0
       /\ Cardinality({i \in DOMAIN r.tkn_ref_ring :
                          r.tkn_ref_ring[i] # NullTkn}) = PSize


\* C21: the wrap counter starts at 1 (TRUE); an incrmt toggles it exactly
\* when the write position goes from slot size-1 to slot 0; after n full
\* passes of the write position around the ring it is 1 XOR (n mod 2).
C21_WrapCount ==
    LET c == packed.ctrl
        w == c.desc_ring.wrap_count
    IN /\ ev.op = "new" => w = TRUE
       /\ (ev.op = "incrmt" /\ pc = "run")
            => ((w # ev.old.desc_ring.wrap_count)
                  <=> (ev.old.position = c.modulo - 1 /\ c.position = 0))
       /\ w = (((packed.writes \div c.modulo) % 2) = 0)

\* The write position has gone round a ring of several slots twice and the
\* counter is 1 again.
C21_Witness ==
    /\ pc = "run"
    /\ ev.op = "incrmt"
    /\ packed.ctrl.modulo >= 2
    /\ packed.writes = 2 * packed.ctrl.modulo
    /\ packed.ctrl.desc_ring.wrap_count = TRUE

\* C22: after a packed push returns, the head descriptor (the slot at
\* write_index when the push began) has AVAIL equal to the wrap counter at
\* the start of the push and USED equal to its negation, whatever the slot
\* held before and whatever the other flags of the descriptor.
C22_HeadAvailUsed ==
    (ev.op = "dispatch" /\ ~ev.panic)
        => LET h == packed.vq.descr_ring.ring[ev.old.write_index]
           IN /\ (AvailBit \in h.flags) = ev.old.wrap_count
              /\ (UsedBit \in h.flags) = ~ev.old.wrap_count

\* A chain pushed with wrap count 0 onto slots that held both bits, the
\* wrap count toggling while the chain was written.
C22_Witness ==
    /\ ev.op = "dispatch"
    /\ ~ev.panic
    /\ ev.old.wrap_count = FALSE
    /\ packed.vq.descr_ring.wrap_count = TRUE
    /\ PushSlots(ev.tkn) >= 2
    /\ {AvailBit, UsedBit} \subseteq ev.old.ring[ev.old.write_index].flags

\* The token is written as a direct chain: none of its buffers is indirect.
IsDirect(tkn) ==
    /\ tkn.buff_tkn.send_buff # None
         => get_ctrl_desc(Unwrap(tkn.buff_tkn.send_buff)) = None
    /\ tkn.buff_tkn.recv_buff # None
         => get_ctrl_desc(Unwrap(tkn.buff_tkn.recv_buff)) = None

\* The j-th descriptor (from 0) of the chain the last push wrote, as the
\* ring holds it.
ChainDesc(j) ==
    packed.vq.descr_ring.ring[(ev.old.write_index + j) % RingLen(ev.old)]

\* The last call pushed a direct chain and returned.
DirectPushed == ev.op = "dispatch" /\ ~ev.panic /\ IsDirect(ev.tkn)

\* C23: in a packed direct chain of k >= 2 descriptors, every descriptor
\* except the last has NEXT set in the flags stored in the ring, and the
\* last has NEXT clear.
C23_DirectChainNext ==
    (DirectPushed /\ PushSlots(ev.tkn) >= 2)
        => \A j \in 0 .. PushSlots(ev.tkn) - 1 :
              (VIRTQ_DESC_F_NEXT \subseteq ChainDesc(j).flags)
                  <=> (j < PushSlots(ev.tkn) - 1)

\* C24: in a packed direct chain every descriptor built from the receive
\* buffer has WRITE set in the ring, the receive descriptors before the last
\* of the chain carry NEXT as well, no descriptor built from the send buffer
\* has WRITE, and all send descriptors precede all receive descriptors.
C24_DirectChainWrite ==
    DirectPushed
        => LET k == PushSlots(ev.tkn)
               side(j) == ChainDesc(j).address[2]
           IN /\ \A j \in 0 .. k - 1 :
                    /\ side(j) = "recv"
                         => VIRTQ_DESC_F_WRITE \subseteq ChainDesc(j).flags
                    /\ (side(j) = "recv" /\ j < k - 1)
                         => (VIRTQ_DESC_F_NEXT \cup VIRTQ_DESC_F_WRITE)
                                \subseteq ChainDesc(j).flags
                    /\ side(j) = "send"
                         => VIRTQ_DESC_F_WRITE \cap ChainDesc(j).flags = {}
              /\ \A i, j \in 0 .. k - 1 :
                    (i < j) => ~(side(i) = "recv" /\ side(j) = "send")

\* C25: early_drop moves a Processing token into the dropped holding list
\* of the queue and returns none of its ids or memory; it lets go of a
\* Finished token at once, the list untouched; for a Ready token it panics
\* and does not touch the list.
C25_EarlyDropByState ==
    ev.op = "early_drop"
        => /\ ev.tkn.state = "Processing"
                => /\ pc = "run"
                   /\ packed.vq.dropped = Append(ev.old.dropped, ev.tkn)
                   /\ packed.vq.mem_pool = ev.old.mem_pool
           /\ ev.tkn.state = "Finished"
                => /\ pc = "run"
                   /\ packed.vq.dropped = ev.old.dropped
                   /\ ev.tkn \notin packed.transfers
           /\ ev.tkn.state = "Ready"
                => /\ pc = "panic"
                   /\ packed.vq.dropped = ev.old.dropped

\* A Processing token has been dropped early and is in the holding list.
C25_Witness ==
    /\ ev.op = "early_drop"
    /\ ev.tkn.state = "Processing"
    /\ packed.vq.dropped = <<ev.tkn>>
    /\ Len(TokenIds(ev.tkn)) >= 2

\* The tokens of the dropped holding list whose buffer the device has
\* marked used.
DroppedUsed ==
    {i \in 1 .. Len(packed.vq.dropped) :
        \E id \in packed.dev.used :
           /\ id \in DOMAIN packed.vq.descr_ring.tkn_ref_ring
           /\ packed.vq.descr_ring.tkn_ref_ring[id]
                = packed.vq.dropped[i].raw_addr}

\* C26: a packed token that was dispatched and dropped while Processing is
\* released in the end: once the device has marked its buffer used, a later
\* poll takes it out of the dropped holding list, the kernel running on.
C26_DroppedReleased ==
    (DroppedUsed # {})
        ~> (pc = "run" /\ DroppedUsed = {})

\* The slots of the chain found used at poll_index of ring r during the
\* first pass of the ring: none when the descriptor there is not marked
\* used.
UsedSlotsAt(r) ==
    IF {AvailBit, UsedBit} \subseteq r.ring[r.poll_index].flags
    THEN DevChainLen(r, r.poll_index, RingLen(r))
    ELSE 0

\* C27: for a chain found used at poll_index, poll raises capacity by the
\* number of slots of the chain and moves poll_index on by as many, modulo
\* size.
C27_PollAccounting ==
    (ev.op = "poll" /\ UsedSlotsAt(ev.old.descr_ring) >= 1)
        => LET r == packed.vq.descr_ring
               n == UsedSlotsAt(ev.old.descr_ring)
           IN /\ pc = "run"
              /\ r.capacity = ev.old.descr_ring.capacity + n
              /\ r.poll_index
                   = (ev.old.descr_ring.poll_index + n) % RingLen(r)

\* The specs of the last call mix Indirect on one side with Single or
\* Multiple on the other.
MixedSpecs ==
    /\ ev.send # None
    /\ ev.recv # None
    /\ (Unwrap(ev.send).kind = "Indirect") # (Unwrap(ev.recv).kind = "Indirect")

\* C28: prep_buffer, prep_transfer and prep_transfer_from_raw return
\* BufferNotSpecified for (None, None) and BufferInWithDirect when one side
\* is Indirect and the other Single or Multiple, whatever the data, and the
\* pool is as it was before the call.
C28_ShapeValidation ==
    ev.op \in PrepFns
        => /\ (ev.send = None /\ ev.recv = None)
                => /\ ~ev.ok
                   /\ ev.err = "BufferNotSpecified"
                   /\ packed.vq.mem_pool = ev.old_pool
           /\ MixedSpecs
                => /\ ~ev.ok
                   /\ ev.err = "BufferInWithDirect"
                   /\ packed.vq.mem_pool = ev.old_pool

\* prep_buffer has refused an Indirect send spec with a Multiple receive
\* spec on a pool that had ids for them.
C28_Witness ==
    /\ ev.op = "prep_buffer"
    /\ MixedSpecs
    /\ Unwrap(ev.send).kind = "Indirect"
    /\ Unwrap(ev.recv).kind = "Multiple"
    /\ Len(ev.old_pool) = PSize
    /\ ev.err = "BufferInWithDirect"

\* C29: prep_transfer and prep_transfer_from_raw return a token only when
\* the length of the data on each side is the total of the sizes of its
\* spec, and return BufferSizeWrong with the length of the data when it is
\* shorter or longer (the specs being of shapes that go together and the
\* pool holding the ids the specs need).
C29_DataSizeChecked ==
    (/\ ev.op \in {"prep_transfer", "prep_transfer_from_raw"}
     /\ ~(ev.send = None /\ ev.recv = None)
     /\ ~MixedSpecs)
        => LET fits == ev.slen = SpecLen(ev.send) /\ ev.rlen = SpecLen(ev.recv)
           IN /\ ev.ok => fits
              /\ (~fits /\ Len(ev.old_pool) = PSize)
                    => /\ ev.err = "BufferSizeWrong"
                       /\ ev.arg \in {ev.slen, ev.rlen}

\* C30: a prep_buffer call that fails with NoDescrAvail leaves the pool
\* with the ids it had before the call, each once.
C30_PrepBufferRollback ==
    (ev.op = "prep_buffer" /\ ev.err = "NoDescrAvail")
        => /\ PoolIds(packed.vq.mem_pool) = PoolIds(ev.old_pool)
           /\ Len(packed.vq.mem_pool) = Len(ev.old_pool)

\* prep_buffer has failed on the receive side after it had pulled ids for
\* the send side.
C30_Witness ==
    /\ ev.op = "prep_buffer"
    /\ ev.err = "NoDescrAvail"
    /\ ev.send # None
    /\ ev.recv # None
    /\ Unwrap(ev.send).kind = "Multiple"
    /\ Len(ev.old_pool) >= Unwrap(ev.send).n
    /\ PoolIds(packed.vq.mem_pool) = PoolIds(ev.old_pool)

\* The chain of a pushed token as the device must find it: the descriptors
\* of the token, first to last.
WrittenChain(f) == [j \in 1 .. Len(f.writes) |-> f.writes[Len(f.writes) + 1 - j][2]]

\* C31: publication ordering of the split push, guest and device
\* interleaved. At every step of push, every avail ring position the device
\* may consume (from the one it takes next up to avail.idx as memory shows
\* it) names the head of a pushed token whose whole chain is in the
\* descriptor table the device reads and whose TransferToken is stored in
\* token_ring; and while a push is under way avail.idx is still what it was
\* when push was entered: the store of avail.idx is the last one of push.
C31_PublicationOrder ==
    /\ \A p \in DevNext .. (avail.idx - 1) :
         \E f \in inflight :
           /\ f.pos = p
           /\ avail.ring[AvailPos(p)] = f.head
           /\ DevChain(descr_table, f.head, {}) = WrittenChain(f)
           /\ token_ring[f.head] = Some(f.tkn)
    /\ call.at # "idle" => DrvIdx(avail, ev.wbuf) = call.idx0

\* A published position the device has not consumed yet, while the next
\* push is under way and some of its stores have not reached memory.
C31_Witness ==
    /\ call.at \in {"chain", "token", "ring", "fence"}
    /\ ev.wbuf # <<>>
    /\ DevNext < avail.idx

\* The ring slots of a chain of n descriptors that starts at slot start of
\* a ring of size slots.
SlotsOf(start, n, size) == {(start + j) % size : j \in 0 .. (n - 1)}

\* C32: head deferral of the packed push, guest and device interleaved.
\* While a push is under way its head shows the available combination
\* (AVAIL = wrap at start, USED = its negation) neither in the ring the
\* device reads nor in the ring as the driver has written it; and once the
\* head of a pushed chain shows it to the device, every descriptor of the
\* chain is in the ring the device reads and the token pointer is recorded
\* in the tracking table: making the head available is the last ring write.
C32_HeadDeferred ==
    /\ call.at # "idle" =>
         /\ ~ShowsAvail(packed.mem[call.c.start].flags, call.c.wrap_at_init)
         /\ ~ShowsAvail(call.c.desc_ring.ring[call.c.start].flags,
                        call.c.wrap_at_init)
    /\ \A f \in inflight :
         ShowsAvail(packed.mem[f.start].flags, f.wrap) =>
           /\ \A j \in SlotsOf(f.start, f.n, Cardinality(DOMAIN packed.mem)) :
                packed.mem[j] = f.ring[j]
           /\ packed.vq.descr_ring.tkn_ref_ring[f.buff_id] = f.raw

\* The device has taken a chain of two descriptors whose head was made
\* available while an earlier store was the last to reach the ring, and
\* the next push is under way.
C32_Witness ==
    /\ call.at \in {"fields", "wfence", "flags", "tkn", "afence", "avail"}
    /\ \E f \in inflight :
         /\ f.n >= 2
         /\ ShowsAvail(packed.mem[f.start].flags, f.wrap)
         /\ \E i \in 1 .. Len(packed.dev.seen) : packed.dev.seen[i].head = f.start

\* The last call pushed a chain and returned.
ChainPushed == ev.op = "dispatch" /\ ~ev.panic

\* The j-th descriptor of the chain lies after the end of the ring: the
\* write position has wrapped before it was written.
AfterWrap(j) == ev.old.write_index + j >= RingLen(ev.old)

HeadId(tkn) == Unwrap(PackedWrites(tkn.buff_tkn).writes[1].desc.id)

\* C34: after a packed push every descriptor of the chain carries the
\* buff_id of the head and the tracking table entry at that buff_id
\* references the pushed TransferToken; the entry of every in-flight token
\* still references it, and no two in-flight tokens share an entry.
C34_BuffIdTracking ==
    LET r == packed.vq.descr_ring
    IN /\ ChainPushed =>
            /\ \A j \in 0 .. PushSlots(ev.tkn) - 1 :
                  ChainDesc(j).buff_id = ChainDesc(0).buff_id
            /\ ChainDesc(0).buff_id = HeadId(ev.tkn)
            /\ ChainDesc(0).buff_id \in DOMAIN r.tkn_ref_ring
            /\ r.tkn_ref_ring[ChainDesc(0).buff_id] = ev.tkn.raw_addr
       /\ \A t \in packed.transfers :
            /\ HeadId(t) \in DOMAIN r.tkn_ref_ring
            /\ r.tkn_ref_ring[HeadId(t)] = t.raw_addr
       /\ \A t1, t2 \in packed.transfers :
            (t1 # t2) => (HeadId(t1) # HeadId(t2))

\* Two tokens in flight, the one pushed last a chain of two descriptors or
\* more that does not start at the slot its buff_id names.
C34_Witness ==
    /\ ChainPushed
    /\ pc = "run"
    /\ Cardinality(packed.transfers) >= 2
    /\ PushSlots(ev.tkn) >= 2
    /\ ChainDesc(1).buff_id # ev.old.write_index

\* The flags field of the k-th raw entry (from 1) of a table of bytes: the
\* u16 read little-endian from its bytes 14 and 15.
RawFlags(bytes, k) ==
    bytes[DescSize * (k - 1) + 15] + Byte * bytes[DescSize * (k - 1) + 16]

\* Bit b of the u16 v is set.
BitSet(v, b) == (v \div (2 ^ b)) % 2 = 1

\* C35: to_le_bytes lays a packed descriptor out as addr in bytes 0-7, len
\* in bytes 8-11, buff_id in bytes 12-13 and flags in bytes 14-15, each
\* little-endian, for every field value; and in an indirect table built by
\* create_indirect_ctrl every entry of a receive descriptor has WRITE set
\* in its serialized flags field and every entry of a send descriptor has
\* it clear.
C35_LeBytesLayout ==
    /\ ev.op = "to_le_bytes" =>
         ev.bytes = u64_to_le_bytes(ev.self.address)
                      \o u32_to_le_bytes(ev.self.len)
                      \o u16_to_le_bytes(ev.self.buff_id)
                      \o u16_to_le_bytes(BitsValue(ev.self.flags))
    /\ (ev.op = "create_indirect_ctrl" /\ ev.ok) =>
         LET ns == Len(FlatDescs(ev.send))
             nr == Len(FlatDescs(ev.recv))
         IN \A k \in 1 .. (ns + nr) :
               BitSet(RawFlags(ev.bytes, k), 1) <=> (k > ns)

\* C36: poll reads (assume_init) only slots of the descriptor table that
\* an earlier push has written, in whatever order the device reports the
\* used heads: every slot poll has read along a walk is a written one.
C36_PollReadsWritten ==
    ev.op = "poll"
        => \A i \in 1 .. Len(ev.elems) :
              \A id \in SeqSet(ev.elems[i].ret) : descr_table[id] # Uninit

\* C37: the MemPool PackedVq::new builds has as many ids as the descriptor
\* ring has slots (the tracking table having one entry more), also when
\* set_vq_size returns a size smaller than the one asked for; so the
\* buff_id of every token prepared indexes inside the tracking table, and
\* the ids out of the pool are never more than the slots of the ring.
C37_PoolMatchesRing ==
    LET r == packed.vq.descr_ring
    IN /\ ev.op = "new" =>
            /\ Len(packed.vq.mem_pool) = RingLen(r)
            /\ Cardinality(DOMAIN r.tkn_ref_ring) - 1 = RingLen(r)
       /\ \A t \in packed.ready : HeadId(t) \in DOMAIN r.tkn_ref_ring
       /\ packed.vq.size - Len(packed.vq.mem_pool) <= RingLen(r)

\* The positions of a ring used one after the other follow each other
\* modulo the size of the queue.
Consecutive(q, len) ==
    \A i \in 1 .. (Len(q) - 1) : q[i + 1].pos = (q[i].pos + 1) % len

\* C38: consecutive successful pushes occupy consecutive avail ring
\* positions modulo size, also across the 16-bit wrap of avail.idx, and
\* poll reads consecutive used ring positions across the wrap of
\* read_idx, for every queue size the constructor accepts.
C38_ConsecutivePositions ==
    call.op = "idx"
        => /\ Consecutive(call.pushed, call.len)
           /\ Consecutive(call.polled, call.len)

\* C39: dispatch_await is all-or-nothing towards the device: it returns
\* Err having published nothing (avail.idx, the avail ring and token_ring
\* unchanged) or returns Ok after publishing; it never aborts once the
\* token is visible to the device, for either value of notif.
C39_DispatchAllOrNothing ==
    ev.op = "dispatch_await"
        => /\ ~ev.ok => /\ pc = "run"
                        /\ avail.idx = ev.old_idx
                        /\ avail.ring = ev.old_ring
                        /\ token_ring = ev.old_token_ring
           /\ ev.ok => /\ pc = "run"
                       /\ avail.idx = NextIdx(ev.old_idx)
                       /\ avail.ring[AvailPos(ev.old_idx)] = ev.index

\* C40: poll terminates. With used.idx unchanged during the call, no walk
\* along NEXT/next comes back to a slot it has visited (it ends after at
\* most size steps), and a poll that returns has processed exactly
\* (used.idx - read_idx) mod 2^16 used elements, whatever the descriptor
\* table holds.
C40_PollTerminates ==
    ev.op = "poll"
        => /\ pc # "hang"
           /\ \A i \in 1 .. Len(ev.elems) :
                 /\ ev.elems[i].end # "hang"
                 /\ Len(ev.elems[i].ret) <= QSize
           /\ pc = "run" =>
                 Len(ev.elems) = (ev.used_idx + IdxMod - ev.old_read_idx) % IdxMod

====
